---- MODULE Spec2Model ----
(***************************************************************************)
(* Position & trade reconciliation engine of the multi-strategy platform.  *)
(*                                                                         *)
(* Ledger tables are modelled as functions from their key to the row:      *)
(*   position_entries  : entry_id -> lot        (trading.position_entries) *)
(*   completed_trades  : trade_id -> trade row  (trading.completed_trades) *)
(*   sync_status       : <<bot, type, start, end>> -> row                  *)
(*                                                  (trading.sync_status)  *)
(*   fills             : the rows of trading.fills in insertion order      *)
(*   positions         : <<bot, symbol>> -> row     (trading.positions)    *)
(*   redis             : key -> value               (the position cache)   *)
(* stream is the sequence of events the exchange has delivered to the      *)
(* listener in data messages so far, each with the outcome of the store    *)
(* calls made while handling it and whether it was handed to its handler.  *)
(* last_close and last_sync hold the arguments and the return value of the *)
(* latest close_position_fifo / sync_time_range_* call that returned,      *)
(* last_failure the arguments of the latest close_position_fifo call that  *)
(* raised and the slice at which it failed; synced is the set              *)
(* of <<kind, start, end>> windows a sync run has gone through with every  *)
(* insert succeeding.                                                      *)
(* procs holds, for each client that closes positions concurrently with    *)
(* another, where it is in close_position_fifo, its arguments and local    *)
(* variables and the row locks its open transaction holds; closed_qty is   *)
(* the quantity such closes have taken out of each lot.                    *)
(* last_reconcile tells whether reconcile_positions_on_startup has run,    *)
(* which branch it took for each symbol and what the exchange reported.    *)
(* match_in is the list of executions given to the trade matcher and       *)
(* match_out what match_all_symbols returned for it.                       *)
(* pager is one run of a paginated fetch of the exchange client: its       *)
(* cursor and accumulated records, the requests it has sent, the pages it  *)
(* has received, the clock and the limiter's last_request_time.            *)
(* backfill is one run of backfill_bot: its local variables, with the      *)
(* sub-windows it has gone through; its datetimes are in whole days.       *)
(* call is the call of a sync method that is suspended at its exchange     *)
(* fetch, if any, and whether the database connection has been lost.       *)
(* service is run_continuous_sync: where it is in its loop, is_running,    *)
(* the bot of the round it is at and its clock.                            *)
(* ws is the stream client: where connect() is, the running flag, the      *)
(* number of connections opened so far and, for the current connection,    *)
(* the requests sent and answers received; heartbeats counts its live      *)
(* heartbeat tasks.                                                        *)
(* consumer is the message loop of the stream client on one connection:    *)
(* the data messages that have arrived, the one it is at, the handlers     *)
(* that have started and not finished, and the events written so far.      *)
(* Times are integers in milliseconds since the epoch.  Prices and         *)
(* quantities are integers; commissions, net P&L and percentages are exact *)
(* rationals <<numerator, denominator>> in lowest terms (the Python code   *)
(* computes them in binary floating point; rounding is not modelled).      *)
(***************************************************************************)
EXTENDS Integers, Sequences, FiniteSets, TLC

VARIABLES position_entries, completed_trades, last_close, last_failure,
          sync_status, last_sync, synced, fills, stream, positions, redis,
          procs, closed_qty, last_reconcile, match_in, match_out, pager,
          backfill, call, service, ws, consumer

lot_vars == <<position_entries, last_close, last_failure>>
sync_vars == <<sync_status, last_sync, synced>>
ingest_vars == <<fills, stream, positions, redis>>
conc_vars == <<procs, closed_qty>>
svc_vars ==
    <<match_in, match_out, pager, backfill, call, service, ws, consumer>>
vars == <<position_entries, completed_trades, last_close, last_failure,
          sync_status, last_sync, synced, fills, stream, positions, redis,
          procs, closed_qty, last_reconcile, match_in, match_out, pager,
          backfill, call, service, ws, consumer>>

(***************************************************************************)
(* Bounds of the model.                                                    *)
(***************************************************************************)
MaxLots == 3
MaxTick == 2
MaxCloses == 2
MaxSyncs == 3
MaxBatch == 2
MaxEvents == 4
MaxExecs == 4
MaxPages == 3
MaxFailedBatches == 2
MaxRounds == 2
MaxConns == 3
MaxMessages == 3

TickMs == 500
MsPerSecond == 1000

bot_id == "shortseller_001"
Symbols == {"BTCUSDT", "ETHUSDT"}
Sides == {"Buy", "Sell"}
Times == {t * TickMs : t \in 0..MaxTick}
\* Entry fills the bot may have had: long lots on BTCUSDT (10 @ 100, then
\* 5 @ 110 in the same second, then 5 @ 100 one second later) and short lots
\* on ETHUSDT.
EntryFills ==
    { [symbol |-> "BTCUSDT", side |-> "Buy", price |-> 100, qty |-> 10,
       time |-> 0, commission |-> 3],
      [symbol |-> "BTCUSDT", side |-> "Buy", price |-> 110, qty |-> 5,
       time |-> TickMs, commission |-> 3],
      [symbol |-> "BTCUSDT", side |-> "Buy", price |-> 100, qty |-> 5,
       time |-> 2 * TickMs, commission |-> 0],
      [symbol |-> "ETHUSDT", side |-> "Sell", price |-> 110, qty |-> 10,
       time |-> 0, commission |-> 3],
      [symbol |-> "ETHUSDT", side |-> "Sell", price |-> 100, qty |-> 5,
       time |-> 2 * TickMs, commission |-> 3] }
ExitPrices == {105}
CloseQtys == {4, 12, 31}
ExitCommissions == {2}
ExitReasons == {"take_profit"}

(***************************************************************************)
(* Exact rational arithmetic.                                              *)
(***************************************************************************)
Abs(x) == IF x < 0 THEN -x ELSE x

Min(a, b) == IF a <= b THEN a ELSE b

RECURSIVE GCD(_, _)
GCD(a, b) == IF b = 0 THEN a ELSE GCD(b, a % b)

Rat(n, d) ==
    LET s == IF d < 0 THEN -1 ELSE 1
        g == GCD(Abs(n), Abs(d))
    IN  <<(s * n) \div g, (s * d) \div g>>

RInt(n) == <<n, 1>>
RAdd(x, y) == Rat(x[1] * y[2] + y[1] * x[2], x[2] * y[2])
RSub(x, y) == Rat(x[1] * y[2] - y[1] * x[2], x[2] * y[2])
RMul(x, y) == Rat(x[1] * y[1], x[2] * y[2])
RDiv(x, y) == Rat(x[1] * y[2], x[2] * y[1])

RECURSIVE RSum(_)
RSum(s) == IF s = <<>> THEN RInt(0) ELSE RAdd(Head(s), RSum(Tail(s)))

\* int(x) of Python: truncation toward zero of n / d.
TruncDiv(n, d) == IF n >= 0 THEN n \div d ELSE -((-n) \div d)

\* int(dt.timestamp()): whole seconds of a time given in milliseconds.
TimestampSeconds(t) == TruncDiv(t, MsPerSecond)

(***************************************************************************)
(* AlphaDBClient.record_completed_trade                                    *)
(***************************************************************************)
LiveTradeId(symbol, entry_time, exit_time) ==
    bot_id \o ":" \o symbol \o ":" \o ToString(TimestampSeconds(entry_time))
           \o ":" \o ToString(TimestampSeconds(exit_time))

LiveGrossPnl(entry_side, entry_price, exit_price, exit_qty) ==
    IF entry_side = "Buy"
    THEN (exit_price - entry_price) * exit_qty
    ELSE (entry_price - exit_price) * exit_qty

\* The INSERT ... ON CONFLICT (trade_id) DO UPDATE of record_completed_trade:
\* a new key gets the whole row, an existing key has exit_price, exit_qty,
\* exit_time, gross_pnl, net_pnl and pnl_pct overwritten.
LiveUpsert(ct, row) ==
    IF row.trade_id \in DOMAIN ct
    THEN [ct EXCEPT ![row.trade_id] =
            [@ EXCEPT !.exit_price = row.exit_price,
                      !.exit_qty = row.exit_qty,
                      !.exit_time = row.exit_time,
                      !.gross_pnl = row.gross_pnl,
                      !.net_pnl = row.net_pnl,
                      !.pnl_pct = row.pnl_pct]]
    ELSE [k \in DOMAIN ct \cup {row.trade_id} |->
            IF k = row.trade_id THEN row ELSE ct[k]]

record_completed_trade(ct, symbol, entry_side, entry_price, entry_qty, entry_time, entry_reason, exit_side, exit_price, exit_qty, exit_time, exit_reason, entry_commission, exit_commission) ==
    LET gross_pnl == LiveGrossPnl(entry_side, entry_price, exit_price, exit_qty)
        total_commission == RAdd(entry_commission, exit_commission)
        net_pnl == RSub(RInt(gross_pnl), total_commission)
        cost_basis == entry_price * entry_qty
        pnl_pct == IF cost_basis > 0
                   THEN RMul(RDiv(net_pnl, RInt(cost_basis)), RInt(100))
                   ELSE RInt(0)
        holding_duration == TruncDiv(exit_time - entry_time, MsPerSecond)
        trade_id == LiveTradeId(symbol, entry_time, exit_time)
        row == [trade_id |-> trade_id, bot_id |-> bot_id, symbol |-> symbol,
                entry_side |-> entry_side, entry_price |-> entry_price,
                entry_qty |-> entry_qty, entry_time |-> entry_time,
                entry_reason |-> entry_reason,
                entry_commission |-> entry_commission,
                exit_side |-> exit_side, exit_price |-> exit_price,
                exit_qty |-> exit_qty, exit_time |-> exit_time,
                exit_reason |-> exit_reason,
                exit_commission |-> exit_commission,
                gross_pnl |-> RInt(gross_pnl), net_pnl |-> net_pnl,
                pnl_pct |-> pnl_pct, total_commission |-> total_commission,
                holding_duration_seconds |-> holding_duration,
                source |-> "bybit_api", synced_at |-> 0]
    IN  [ct |-> LiveUpsert(ct, row), trade_id |-> trade_id]

(***************************************************************************)
(* AlphaDBClient.create_position_entry                                     *)
(***************************************************************************)
\* f"{bot_id}:{symbol}:{entry_time.timestamp()}": seconds with the fraction.
EntryId(symbol, entry_time) ==
    bot_id \o ":" \o symbol \o ":" \o ToString(entry_time \div MsPerSecond)
           \o "." \o ToString(entry_time % MsPerSecond)

\* opened_side is the side of the fill that opened the lot.  The
\* position_entries table has no column for it and no code reads it: it is
\* kept only so that properties can tell long lots from short lots.
create_position_entry(symbol, entry_price, quantity, entry_time, commission, opened_side) ==
    LET entry_id == EntryId(symbol, entry_time)
        lot == [entry_id |-> entry_id, symbol |-> symbol,
                entry_price |-> entry_price, original_qty |-> quantity,
                remaining_qty |-> quantity, entry_time |-> entry_time,
                entry_commission |-> commission, status |-> "open",
                opened_side |-> opened_side]
    IN  /\ Cardinality(DOMAIN position_entries) < MaxLots
        /\ entry_id \notin DOMAIN position_entries
        /\ position_entries' =
             [k \in DOMAIN position_entries \cup {entry_id} |->
                IF k = entry_id THEN lot ELSE position_entries[k]]
        /\ UNCHANGED <<completed_trades, last_close, last_failure>>
        /\ UNCHANGED sync_vars
        /\ UNCHANGED ingest_vars
        /\ UNCHANGED last_reconcile
        /\ UNCHANGED conc_vars
        /\ UNCHANGED svc_vars

(***************************************************************************)
(* AlphaDBClient.close_position_fifo                                       *)
(***************************************************************************)
\* ORDER BY entry_time DESC instead of ASC.
RECURSIVE SortByEntryTime_desc(_)
SortByEntryTime_desc(lots) ==
    IF lots = {} THEN <<>>
    ELSE LET first == CHOOSE l \in lots :
                        \A m \in lots : l.entry_time >= m.entry_time
         IN  <<first>> \o SortByEntryTime_desc(lots \ {first})

RECURSIVE SortByEntryTime(_)
SortByEntryTime(lots) ==
    IF lots = {} THEN <<>>
    ELSE LET first == CHOOSE l \in lots :
                        \A m \in lots : l.entry_time <= m.entry_time
         IN  <<first>> \o SortByEntryTime(lots \ {first})

\* SELECT ... WHERE bot_id = %s AND symbol = %s AND status != 'closed'
\*   AND remaining_qty > 0 ORDER BY entry_time ASC
OpenEntries(pe, symbol) ==
    SortByEntryTime({pe[k] : k \in {j \in DOMAIN pe :
        /\ pe[j].symbol = symbol
        /\ pe[j].status /= "closed"
        /\ pe[j].remaining_qty > 0}})

\* The min() against the lot's remaining quantity left out.
QtyToClose_nomin(remaining_qty, remaining_to_close) == remaining_to_close

QtyToClose(remaining_qty, remaining_to_close) ==
    Min(remaining_qty, remaining_to_close)

\* A lot that still has quantity left keeps the status it was created with.
NewStatus_open(new_remaining) ==
    IF new_remaining = 0 THEN "closed" ELSE "open"

NewStatus(new_remaining) ==
    IF new_remaining = 0 THEN "closed" ELSE "partially_closed"

\* The share by whole-number division of the quantities.
ExitCommPortion_floor(exit_commission, qty_to_close, close_qty) ==
    IF close_qty > 0
    THEN RMul(exit_commission, RInt(qty_to_close \div close_qty))
    ELSE RInt(0)

\* The whole exit commission charged to every slice.
ExitCommPortion_full(exit_commission, qty_to_close, close_qty) ==
    exit_commission

ExitCommPortion(exit_commission, qty_to_close, close_qty) ==
    IF close_qty > 0
    THEN RMul(exit_commission, Rat(qty_to_close, close_qty))
    ELSE RInt(0)

EntryCommPortion(entry_commission, qty_to_close, original_qty) ==
    RMul(entry_commission, Rat(qty_to_close, original_qty))

\* One iteration of the loop "for entry in entries" on the state
\* st = [pe, ct, out, remaining_to_close].
CloseSlice(st, entry, symbol, exit_price, close_qty, exit_time, exit_reason, exit_commission) ==
    LET qty_to_close == QtyToClose(entry.remaining_qty, st.remaining_to_close)
        entry_price == entry.entry_price
        gross_pnl == (exit_price - entry_price) * qty_to_close
        entry_comm_portion ==
            EntryCommPortion(entry.entry_commission, qty_to_close,
                             entry.original_qty)
        exit_comm_portion ==
            ExitCommPortion(exit_commission, qty_to_close, close_qty)
        net_pnl == RSub(RSub(RInt(gross_pnl), entry_comm_portion),
                        exit_comm_portion)
        cost_basis == entry_price * qty_to_close
        pnl_pct == IF cost_basis > 0
                   THEN RMul(RDiv(net_pnl, RInt(cost_basis)), RInt(100))
                   ELSE RInt(0)
        new_remaining == entry.remaining_qty - qty_to_close
        new_status == NewStatus(new_remaining)
        rec == record_completed_trade(st.ct, symbol, "Buy", entry_price,
                   qty_to_close, entry.entry_time, "entry", "Sell",
                   exit_price, qty_to_close, exit_time, exit_reason,
                   entry_comm_portion, exit_comm_portion)
    IN  [pe |-> [st.pe EXCEPT ![entry.entry_id] =
                    [@ EXCEPT !.remaining_qty = new_remaining,
                              !.status = new_status]],
         ct |-> rec.ct,
         out |-> Append(st.out,
                    [entry_id |-> entry.entry_id, trade_id |-> rec.trade_id,
                     entry_price |-> entry_price, exit_price |-> exit_price,
                     quantity |-> qty_to_close, gross_pnl |-> gross_pnl,
                     net_pnl |-> net_pnl, pnl_pct |-> pnl_pct]),
         remaining_to_close |-> st.remaining_to_close - qty_to_close]

RECURSIVE CloseLoop(_, _, _, _, _, _, _, _)
CloseLoop(st, entries, symbol, exit_price, close_qty, exit_time, exit_reason, exit_commission) ==
    IF entries = <<>> \/ st.remaining_to_close <= 0
    THEN st
    ELSE CloseLoop(CloseSlice(st, Head(entries), symbol, exit_price,
                              close_qty, exit_time, exit_reason,
                              exit_commission),
                   Tail(entries), symbol, exit_price, close_qty, exit_time,
                   exit_reason, exit_commission)

\* The function on an explicit ledger state: the tables after the call and
\* the returned list of slices.
CloseFifo(pe, ct, symbol, exit_price, close_qty, exit_time, exit_reason, exit_commission) ==
    CloseLoop([pe |-> pe, ct |-> ct, out |-> <<>>,
               remaining_to_close |-> close_qty],
              OpenEntries(pe, symbol), symbol, exit_price, close_qty,
              exit_time, exit_reason, exit_commission)

NoClose == [n |-> 0, symbol |-> "", close_qty |-> 0, exit_price |-> 0,
            exit_time |-> 0, exit_commission |-> RInt(0), out |-> <<>>]

close_position_fifo(symbol, exit_price, close_qty, exit_time, exit_reason, exit_commission) ==
    LET res == CloseFifo(position_entries, completed_trades, symbol,
                         exit_price, close_qty, exit_time, exit_reason,
                         exit_commission)
    IN  /\ last_close.n + last_failure.n < MaxCloses
        /\ UNCHANGED last_failure
        /\ position_entries' = res.pe
        /\ completed_trades' = res.ct
        /\ last_close' = [n |-> last_close.n + 1, symbol |-> symbol,
                          close_qty |-> close_qty, exit_price |-> exit_price,
                          exit_time |-> exit_time,
                          exit_commission |-> exit_commission,
                          out |-> res.out]
        /\ UNCHANGED sync_vars
        /\ UNCHANGED ingest_vars
        /\ UNCHANGED last_reconcile
        /\ UNCHANGED conc_vars
        /\ UNCHANGED svc_vars

\* The UPDATE of the lot stays although the transaction is rolled back.
RollbackSlice_keep_update(before, pending) ==
    [before EXCEPT !.pe = pending.pe]

\* The UPDATE of the lot and the INSERT of record_completed_trade of one
\* slice are in one transaction, committed by record_completed_trade; an
\* exception at either statement or at the commit rolls back to the state
\* the previous slice committed.
RollbackSlice(before, pending) == before

RECURSIVE CloseLoopFailing(_, _, _, _, _, _, _, _, _)
\* The loop when the store raises in the fail_at-th slice still to run.
CloseLoopFailing(st, entries, symbol, exit_price, close_qty, exit_time, exit_reason, exit_commission, fail_at) ==
    IF entries = <<>> \/ st.remaining_to_close <= 0
    THEN [st |-> st, raised |-> FALSE]
    ELSE LET pending == CloseSlice(st, Head(entries), symbol, exit_price,
                                   close_qty, exit_time, exit_reason,
                                   exit_commission)
         IN  IF fail_at = 1
             THEN [st |-> RollbackSlice(st, pending), raised |-> TRUE]
             ELSE CloseLoopFailing(pending, Tail(entries), symbol,
                                   exit_price, close_qty, exit_time,
                                   exit_reason, exit_commission, fail_at - 1)

NoFailure == [n |-> 0, symbol |-> "", exit_price |-> 0, exit_time |-> 0,
              fail_at |-> 0]

\* close_position_fifo when a statement of slice fail_at raises: the except
\* branch rolls back and re-raises, nothing is returned.
close_position_fifo_raising(symbol, exit_price, close_qty, exit_time, exit_reason, exit_commission, fail_at) ==
    LET res == CloseLoopFailing([pe |-> position_entries,
                                 ct |-> completed_trades, out |-> <<>>,
                                 remaining_to_close |-> close_qty],
                                OpenEntries(position_entries, symbol),
                                symbol, exit_price, close_qty, exit_time,
                                exit_reason, exit_commission, fail_at)
    IN  /\ last_close.n + last_failure.n < MaxCloses
        /\ res.raised
        /\ position_entries' = res.st.pe
        /\ completed_trades' = res.st.ct
        /\ last_failure' = [n |-> last_failure.n + 1, symbol |-> symbol,
                            exit_price |-> exit_price,
                            exit_time |-> exit_time, fail_at |-> fail_at]
        /\ UNCHANGED last_close
        /\ UNCHANGED sync_vars
        /\ UNCHANGED ingest_vars
        /\ UNCHANGED last_reconcile
        /\ UNCHANGED conc_vars
        /\ UNCHANGED svc_vars


(***************************************************************************)
(* Exchange history seen by the trade sync service.  A client order tag    *)
(* "a:b:c" is held as the tuple of its colon-separated fields.             *)
(***************************************************************************)
ClosedPnlHistory ==
    << [symbol |-> "BTCUSDT", orderId |-> "o2", side |-> "Buy",
        closedSize |-> 10, createdTime |-> 0, updatedTime |-> 2 * TickMs,
        avgEntryPrice |-> 100, avgExitPrice |-> 105, closedPnl |-> 45,
        openFee |-> 3, closeFee |-> 2, cumEntryValue |-> 1000,
        orderLinkId |-> <<"">>],
       [symbol |-> "ETHUSDT", orderId |-> "o4", side |-> "Sell",
        closedSize |-> 5, createdTime |-> TickMs, updatedTime |-> TickMs,
        avgEntryPrice |-> 110, avgExitPrice |-> 105, closedPnl |-> 20,
        openFee |-> 3, closeFee |-> 2, cumEntryValue |-> 550,
        orderLinkId |-> <<"">>] >>

ExecutionHistory ==
    << [symbol |-> "BTCUSDT", orderId |-> "o1", side |-> "Buy",
        execTime |-> 0, execPrice |-> 100, execQty |-> 10, execFee |-> 3,
        orderLinkId |-> <<"shortseller_001", "entry", "0">>],
       [symbol |-> "BTCUSDT", orderId |-> "o5", side |-> "Buy",
        execTime |-> 0, execPrice |-> 100, execQty |-> 5, execFee |-> 1,
        orderLinkId |-> <<"lxalgo_001", "entry", "0">>],
       [symbol |-> "BTCUSDT", orderId |-> "o3", side |-> "Buy",
        execTime |-> TickMs, execPrice |-> 110, execQty |-> 5, execFee |-> 3,
        orderLinkId |-> <<"shortseller_001", "entry", "0">>],
       [symbol |-> "BTCUSDT", orderId |-> "o2", side |-> "Sell",
        execTime |-> 2 * TickMs, execPrice |-> 105, execQty |-> 10,
        execFee |-> 2,
        orderLinkId |-> <<"shortseller_001", "take_profit", "1">>] >>

InWindow(t, start_ms, end_ms) == start_ms <= t /\ t <= end_ms

\* What the exchange returns for a window (all pages concatenated).
FetchClosedPnl(start_ms, end_ms) ==
    SelectSeq(ClosedPnlHistory,
              LAMBDA r : InWindow(r.createdTime, start_ms, end_ms))

FetchExecutions(start_ms, end_ms) ==
    SelectSeq(ExecutionHistory,
              LAMBDA e : InWindow(e.execTime, start_ms, end_ms))

(***************************************************************************)
(* ClosedPnLMapper                                                         *)
(***************************************************************************)
None == "None"

\* parse_order_link_id: (bot_id, reason) of a tag with at least two fields.
MapperReason(order_link_id) ==
    IF order_link_id = <<"">> THEN None
    ELSE IF Len(order_link_id) >= 2 THEN order_link_id[2] ELSE None

\* "x or default" of Python: None and the empty string give the default.
Falsy(x) == x = None \/ x = ""

SyncTradeId(bot, symbol, time_ms) ==
    bot \o "_" \o symbol \o "_" \o ToString(time_ms)

map_closed_pnl_to_trade(record, bot) ==
    LET qty == record.closedSize
        created_time_ms == record.createdTime
        entry_time == created_time_ms
        bump == record.updatedTime <= entry_time
        exit_time == IF bump THEN entry_time + MsPerSecond
                     ELSE record.updatedTime
        updated_time_ms == exit_time
        total_commission == Abs(record.openFee) + Abs(record.closeFee)
        gross_pnl == record.closedPnl + total_commission
        net_pnl == record.closedPnl
        entry_value == record.cumEntryValue
        pnl_pct == IF entry_value /= 0
                   THEN RMul(Rat(record.closedPnl, Abs(entry_value)),
                             RInt(100))
                   ELSE RInt(0)
        reason == MapperReason(record.orderLinkId)
        long == record.side = "Buy"
    IN  [trade_id |-> SyncTradeId(bot, record.symbol, created_time_ms),
         bot_id |-> bot, symbol |-> record.symbol,
         entry_side |-> IF long THEN "Buy" ELSE "Sell",
         entry_price |-> record.avgEntryPrice, entry_qty |-> qty,
         entry_time |-> entry_time,
         entry_reason |-> IF ~Falsy(reason) THEN reason
                          ELSE IF long THEN "long_entry" ELSE "short_entry",
         entry_commission |-> RInt(Abs(record.openFee)),
         exit_side |-> IF long THEN "Sell" ELSE "Buy",
         exit_price |-> record.avgExitPrice, exit_qty |-> qty,
         exit_time |-> exit_time,
         exit_reason |-> IF long THEN "long_exit" ELSE "short_exit",
         exit_commission |-> RInt(Abs(record.closeFee)),
         gross_pnl |-> RInt(gross_pnl), net_pnl |-> RInt(net_pnl),
         pnl_pct |-> pnl_pct, total_commission |-> RInt(total_commission),
         holding_duration_seconds |->
             TruncDiv(updated_time_ms - created_time_ms, MsPerSecond),
         source |-> "bybit_api", synced_at |-> 0]

map_all(records, bot) ==
    [i \in 1..Len(records) |-> map_closed_pnl_to_trade(records[i], bot)]

(***************************************************************************)
(* TradeMatcher                                                            *)
(***************************************************************************)
\* parse_client_order_id: the bot_id and reason of a tag, None when the tag
\* is empty or has a single field.
MatcherBotId(tag) ==
    IF tag = <<"">> \/ Len(tag) < 2 THEN None ELSE tag[1]

MatcherReason(tag) ==
    IF tag = <<"">> \/ Len(tag) < 2 THEN None ELSE tag[2]

\* The list as given, not sorted.
SortByExecTime_asgiven(execs) == execs

\* sorted(..., key=execTime): stable, equal times keep their list order.
RECURSIVE SortByExecTime(_)
SortByExecTime(execs) ==
    IF execs = <<>> THEN <<>>
    ELSE LET i == CHOOSE x \in 1..Len(execs) :
                    /\ \A y \in 1..Len(execs) :
                          execs[x].execTime <= execs[y].execTime
                    /\ \A y \in 1..(x - 1) :
                          execs[y].execTime > execs[x].execTime
         IN  <<execs[i]>>
             \o SortByExecTime(SubSeq(execs, 1, i - 1)
                               \o SubSeq(execs, i + 1, Len(execs)))

create_matched_trade(buy_exec, sell_exec) ==
    LET entry_bot_id == MatcherBotId(buy_exec.orderLinkId)
        exit_bot_id == MatcherBotId(sell_exec.orderLinkId)
        bot == IF ~Falsy(entry_bot_id) THEN entry_bot_id ELSE exit_bot_id
        entry_time == buy_exec.execTime
        exit_time == sell_exec.execTime
        entry_commission == Abs(buy_exec.execFee)
        exit_commission == Abs(sell_exec.execFee)
        total_commission == entry_commission + exit_commission
        quantity == Min(buy_exec.execQty, sell_exec.execQty)
        gross_pnl == (sell_exec.execPrice - buy_exec.execPrice) * quantity
        net_pnl == gross_pnl - total_commission
        position_value == buy_exec.execPrice * quantity
    IN  [trade_id |-> SyncTradeId(bot, buy_exec.symbol, buy_exec.execTime),
         bot_id |-> bot, symbol |-> buy_exec.symbol,
         entry_order_id |-> buy_exec.orderId,
         exit_order_id |-> sell_exec.orderId,
         entry_side |-> buy_exec.side, entry_price |-> buy_exec.execPrice,
         entry_qty |-> buy_exec.execQty, entry_time |-> entry_time,
         entry_reason |-> MatcherReason(buy_exec.orderLinkId),
         entry_commission |-> RInt(entry_commission),
         exit_side |-> sell_exec.side, exit_price |-> sell_exec.execPrice,
         exit_qty |-> sell_exec.execQty, exit_time |-> exit_time,
         exit_reason |-> MatcherReason(sell_exec.orderLinkId),
         exit_commission |-> RInt(exit_commission),
         gross_pnl |-> RInt(gross_pnl), net_pnl |-> RInt(net_pnl),
         pnl_pct |-> IF position_value > 0
                     THEN RMul(Rat(net_pnl, position_value), RInt(100))
                     ELSE RInt(0),
         total_commission |-> RInt(total_commission),
         holding_duration_seconds |->
             TruncDiv(exit_time - entry_time, MsPerSecond),
         source |-> "bybit_api", synced_at |-> 0]

\* The loops of match_fifo on the sorted lists: each buy takes the next sell
\* whose time is after it; sells at or before the buy are passed over.
RECURSIVE MatchLoop(_, _, _)
MatchLoop(buys_sorted, sells_sorted, sell_idx) ==
    IF buys_sorted = <<>> THEN <<>>
    ELSE IF sell_idx > Len(sells_sorted)
    THEN MatchLoop(Tail(buys_sorted), sells_sorted, sell_idx)
    ELSE IF sells_sorted[sell_idx].execTime > Head(buys_sorted).execTime
    THEN <<create_matched_trade(Head(buys_sorted), sells_sorted[sell_idx])>>
         \o MatchLoop(Tail(buys_sorted), sells_sorted, sell_idx + 1)
    ELSE MatchLoop(buys_sorted, sells_sorted, sell_idx + 1)

match_fifo(buys, sells) ==
    MatchLoop(SortByExecTime(buys), SortByExecTime(sells), 1)

\* Symbols in the order group_executions_by_symbol first sees them.
RECURSIVE SymbolOrder(_, _)
SymbolOrder(execs, seen) ==
    IF execs = <<>> THEN <<>>
    ELSE IF Head(execs).symbol \in seen \/ Head(execs).side \notin Sides
    THEN SymbolOrder(Tail(execs), seen)
    ELSE <<Head(execs).symbol>>
         \o SymbolOrder(Tail(execs), seen \cup {Head(execs).symbol})

RECURSIVE MatchSymbols(_, _)
MatchSymbols(execs, symbols) ==
    IF symbols = <<>> THEN <<>>
    ELSE match_fifo(
            SelectSeq(execs, LAMBDA e : e.symbol = Head(symbols)
                                        /\ e.side = "Buy"),
            SelectSeq(execs, LAMBDA e : e.symbol = Head(symbols)
                                        /\ e.side = "Sell"))
         \o MatchSymbols(execs, Tail(symbols))

match_all_symbols(execs) == MatchSymbols(execs, SymbolOrder(execs, {}))

validate_trade(trade) ==
    /\ trade.bot_id /= None
    /\ trade.exit_time > trade.entry_time
    /\ trade.entry_price > 0
    /\ trade.exit_price > 0

(***************************************************************************)
(* SyncDatabase                                                            *)
(***************************************************************************)
\* RETURNING TRUE: every upsert reported as an insert.
WasInserted_always(ct, trade_id) == TRUE

\* RETURNING (xmax = 0) AS inserted: true for a new row, false for a row the
\* ON CONFLICT branch updated.
WasInserted(ct, trade_id) == trade_id \notin DOMAIN ct

\* The upsert taking the source of the new values on a conflict.
SyncUpsert_overwrite(ct, trade, now) ==
    [k \in DOMAIN ct \cup {trade.trade_id} |->
        IF k = trade.trade_id
        THEN IF k \in DOMAIN ct
             THEN [ct[k] EXCEPT !.synced_at = now, !.source = trade.source]
             ELSE [trade EXCEPT !.synced_at = now]
        ELSE ct[k]]

\* INSERT ... ON CONFLICT (trade_id) DO UPDATE SET synced_at, source.
SyncUpsert(ct, trade, now) ==
    IF trade.trade_id \in DOMAIN ct
    THEN [ct EXCEPT ![trade.trade_id] =
            [@ EXCEPT !.synced_at = now,
                      !.source = IF @ = "websocket" THEN "websocket"
                                 ELSE trade.source]]
    ELSE [k \in DOMAIN ct \cup {trade.trade_id} |->
            IF k = trade.trade_id
            THEN [trade EXCEPT !.synced_at = now] ELSE ct[k]]

insert_completed_trade(ct, trade, now) ==
    [ct |-> SyncUpsert(ct, trade, now),
     inserted |-> WasInserted(ct, trade.trade_id)]

RECURSIVE BulkLoop_abort(_, _, _, _, _)
\* The loop left at the first insert that raises.
BulkLoop_abort(st, trades, i, failing, now) ==
    IF i > Len(trades) THEN st
    ELSE IF i \in failing THEN [st EXCEPT !.skipped = @ + 1]
    ELSE LET r == insert_completed_trade(st.ct, trades[i], now)
         IN  BulkLoop_abort([ct |-> r.ct,
                             inserted |-> st.inserted
                                          + (IF r.inserted THEN 1 ELSE 0),
                             skipped |-> st.skipped
                                         + (IF r.inserted THEN 0 ELSE 1)],
                            trades, i + 1, failing, now)

\* bulk_insert_completed_trades: trades at the positions in failing raise in
\* the database and are counted as skipped.
RECURSIVE BulkLoop(_, _, _, _, _)
BulkLoop(st, trades, i, failing, now) ==
    IF i > Len(trades) THEN st
    ELSE IF i \in failing
    THEN BulkLoop([st EXCEPT !.skipped = @ + 1], trades, i + 1, failing, now)
    ELSE LET r == insert_completed_trade(st.ct, trades[i], now)
         IN  BulkLoop([ct |-> r.ct,
                       inserted |-> st.inserted
                                    + (IF r.inserted THEN 1 ELSE 0),
                       skipped |-> st.skipped
                                   + (IF r.inserted THEN 0 ELSE 1)],
                      trades, i + 1, failing, now)

bulk_insert_completed_trades(ct, trades, failing, now) ==
    BulkLoop([ct |-> ct, inserted |-> 0, skipped |-> 0], trades, 1,
             failing, now)

StatusKey(bot, sync_type, start_time, end_time) ==
    <<bot, sync_type, start_time, end_time>>

\* create_sync_status followed by update_sync_status on the same record.
SetSyncStatus(ss, key, status, trades_synced, error_message) ==
    [k \in DOMAIN ss \cup {key} |->
        IF k = key
        THEN [status |-> status, trades_synced |-> trades_synced,
              error_message |-> error_message]
        ELSE ss[k]]

(***************************************************************************)
(* TradeSyncService                                                        *)
(***************************************************************************)
\* handed, skipped and failed tell of the bulk insert of the run: how many
\* trades it was handed, its skipped count, and the positions whose insert
\* raised.
NoSync == [n |-> 0, kind |-> "", start_time |-> 0, end_time |-> 0,
           raised |-> FALSE, matched |-> 0, inserted |-> 0,
           rerun |-> FALSE, handed |-> 0, skipped |-> 0, failed |-> {}]

\* The common tail of both sync methods: trades is the list handed to the
\* bulk insert, matched the first component of the returned pair.
FinishSync(kind, sync_type, start_time, end_time, fetch_ok, trades, matched, failing) ==
    LET key == StatusKey(bot_id, sync_type, start_time, end_time)
        now == last_sync.n + 1
        bulk == bulk_insert_completed_trades(completed_trades, trades,
                                             failing, now)
        ran == [n |-> now, kind |-> kind, start_time |-> start_time,
                end_time |-> end_time, raised |-> FALSE, matched |-> 0,
                inserted |-> 0,
                rerun |-> <<kind, start_time, end_time>> \in synced,
                handed |-> 0, skipped |-> 0, failed |-> {}]
    IN  /\ last_sync.n < MaxSyncs
        /\ IF ~fetch_ok
           THEN /\ sync_status' = SetSyncStatus(sync_status, key, "failed",
                                                0, "Sync failed")
                /\ last_sync' = [ran EXCEPT !.raised = TRUE]
                /\ UNCHANGED <<completed_trades, synced>>
           ELSE IF trades = <<>>
           THEN /\ sync_status' = SetSyncStatus(sync_status, key,
                                                "completed", 0, None)
                /\ last_sync' = [ran EXCEPT !.matched = matched]
                /\ synced' = synced \cup {<<kind, start_time, end_time>>}
                /\ UNCHANGED completed_trades
           ELSE /\ completed_trades' = bulk.ct
                /\ sync_status' = SetSyncStatus(sync_status, key,
                                                "completed", bulk.inserted,
                                                None)
                /\ last_sync' = [ran EXCEPT
                                    !.matched = matched,
                                    !.inserted = bulk.inserted,
                                    !.handed = Len(trades),
                                    !.skipped = bulk.skipped,
                                    !.failed = failing \cap (1..Len(trades))]
                /\ synced' = IF failing \cap (1..Len(trades)) = {}
                             THEN synced \cup {<<kind, start_time, end_time>>}
                             ELSE synced
        /\ UNCHANGED lot_vars
        /\ UNCHANGED ingest_vars
        /\ UNCHANGED last_reconcile
        /\ UNCHANGED conc_vars
        /\ UNCHANGED svc_vars

sync_time_range_closed_pnl(start_time, end_time, fetch_ok, failing) ==
    LET closed_pnl_records == FetchClosedPnl(start_time, end_time)
        completed == map_all(closed_pnl_records, bot_id)
    IN  FinishSync("closed_pnl", "backfill", start_time, end_time, fetch_ok,
                   completed, Len(completed), failing)

\* No filter: every execution of the window is taken.
TagStartsWithBot_any(tag, bot) == TRUE

\* order_link_id.startswith(f"{bot_id}:")
TagStartsWithBot(tag, bot) == Len(tag) >= 2 /\ tag[1] = bot

sync_time_range_executions(start_time, end_time, fetch_ok, failing) ==
    LET executions == FetchExecutions(start_time, end_time)
        bot_executions ==
            SelectSeq(executions,
                      LAMBDA e : TagStartsWithBot(e.orderLinkId, bot_id))
        matched_trades == match_all_symbols(bot_executions)
        valid_trades == SelectSeq(matched_trades, validate_trade)
    IN  FinishSync("executions", "hourly", start_time, end_time, fetch_ok,
                   valid_trades, Len(matched_trades), failing)

(***************************************************************************)
(* One call of sync_time_range_closed_pnl / sync_time_range_executions as  *)
(* a function of the tables: create_sync_status, then the try block and   *)
(* its except handler.  How the call goes:                                 *)
(*   ok                   nothing raises;                                  *)
(*   fetch_raises         the exchange client raises;                      *)
(*   status_write_raises  the UPDATE that marks the record completed       *)
(*                        raises, the one of the except handler succeeds;  *)
(*   connection_lost      the database connection dies during the fetch:   *)
(*                        every later statement raises (SyncDatabase       *)
(*                        connects only when self.conn is None);           *)
(*   interrupted          the task is cancelled while it awaits the fetch: *)
(*                        CancelledError is not an Exception.              *)
(***************************************************************************)
SyncOutcomes ==
    {"ok", "fetch_raises", "status_write_raises", "connection_lost",
     "interrupted"}

\* INSERT ... 'running' ... ON CONFLICT DO UPDATE SET status = 'running',
\* error_message = NULL.
create_sync_status(ss, key) ==
    IF key \in DOMAIN ss
    THEN [ss EXCEPT ![key] = [@ EXCEPT !.status = "running",
                                       !.error_message = None]]
    ELSE [k \in DOMAIN ss \cup {key} |->
            IF k = key
            THEN [status |-> "running", trades_synced |-> 0,
                  error_message |-> None]
            ELSE ss[k]]

\* The try block and the except handler, after create_sync_status.
sync_try(ss, ct, key, trades, matched, outcome, failing, now) ==
    LET bulk == bulk_insert_completed_trades(ct, trades, failing, now)
        failed == SetSyncStatus(ss, key, "failed", 0, "Sync failed")
        handed == Len(trades)
        skipped == IF trades = <<>> THEN 0 ELSE bulk.skipped
    IN  IF outcome \in {"interrupted", "connection_lost"}
        THEN [ss |-> ss, ct |-> ct, raised |-> TRUE, matched |-> 0,
              inserted |-> 0, handed |-> 0, skipped |-> 0]
        ELSE IF outcome = "fetch_raises"
        THEN [ss |-> failed, ct |-> ct, raised |-> TRUE, matched |-> 0,
              inserted |-> 0, handed |-> 0, skipped |-> 0]
        ELSE IF outcome = "status_write_raises"
        THEN [ss |-> failed, ct |-> IF trades = <<>> THEN ct ELSE bulk.ct,
              raised |-> TRUE, matched |-> 0, inserted |-> 0,
              handed |-> handed, skipped |-> skipped]
        ELSE [ss |-> SetSyncStatus(ss, key, "completed",
                        IF trades = <<>> THEN 0 ELSE bulk.inserted, None),
              ct |-> IF trades = <<>> THEN ct ELSE bulk.ct,
              raised |-> FALSE, matched |-> matched,
              inserted |-> IF trades = <<>> THEN 0 ELSE bulk.inserted,
              handed |-> handed, skipped |-> skipped]

sync_call(ss, ct, key, trades, matched, outcome, failing, now) ==
    sync_try(create_sync_status(ss, key), ct, key, trades, matched, outcome,
             failing, now)

(***************************************************************************)
(* A call of one of the two sync methods in two steps: up to the await of  *)
(* the exchange fetch (the record is marked running), and from the answer  *)
(* of the fetch to the return or the raise.                                *)
(***************************************************************************)
NoCall ==
    [active |-> FALSE, kind |-> "", bot |-> "", sync_type |-> "",
     start_time |-> 0, end_time |-> 0, conn_lost |-> FALSE]

\* The list handed to the bulk insert and the count returned with it.
ClosedPnlTrades(bot, start_ms, end_ms) ==
    LET completed == map_all(FetchClosedPnl(start_ms, end_ms), bot)
    IN  [trades |-> completed, matched |-> Len(completed)]

ExecutionTrades(bot, start_ms, end_ms) ==
    LET bot_executions ==
            SelectSeq(FetchExecutions(start_ms, end_ms),
                      LAMBDA e : TagStartsWithBot(e.orderLinkId, bot))
        matched_trades == match_all_symbols(bot_executions)
    IN  [trades |-> SelectSeq(matched_trades, validate_trade),
         matched |-> Len(matched_trades)]

CallKey(c) == StatusKey(c.bot, c.sync_type, c.start_time, c.end_time)

\* create_sync_status, then the coroutine awaits the exchange.
begin_sync(kind, bot, sync_type, start_time, end_time) ==
    /\ ~call.active
    /\ ~call.conn_lost
    /\ sync_status' =
          create_sync_status(sync_status,
              StatusKey(bot, sync_type, start_time, end_time))
    /\ call' = [call EXCEPT !.active = TRUE, !.kind = kind, !.bot = bot,
                            !.sync_type = sync_type,
                            !.start_time = start_time,
                            !.end_time = end_time]
    /\ UNCHANGED <<completed_trades, last_sync, synced>>

\* create_sync_status raises on the dead connection: the call ends before
\* its try block.
begin_sync_raises(kind, start_time, end_time) ==
    /\ ~call.active
    /\ call.conn_lost
    /\ last_sync' = [n |-> last_sync.n + 1, kind |-> kind,
                     start_time |-> start_time, end_time |-> end_time,
                     raised |-> TRUE, matched |-> 0, inserted |-> 0,
                     rerun |-> FALSE, handed |-> 0, skipped |-> 0,
                     failed |-> {}]
    /\ UNCHANGED <<sync_status, completed_trades, synced, call>>

\* The rest of the call.
end_sync(outcome, failing) ==
    LET t == IF call.kind = "closed_pnl"
             THEN ClosedPnlTrades(call.bot, call.start_time, call.end_time)
             ELSE ExecutionTrades(call.bot, call.start_time, call.end_time)
        res == sync_try(sync_status, completed_trades, CallKey(call),
                        t.trades, t.matched, outcome, failing,
                        last_sync.n + 1)
    IN  /\ call.active
        /\ sync_status' = res.ss
        /\ completed_trades' = res.ct
        /\ last_sync' = [n |-> last_sync.n + 1, kind |-> call.kind,
                         start_time |-> call.start_time,
                         end_time |-> call.end_time, raised |-> res.raised,
                         matched |-> res.matched, inserted |-> res.inserted,
                         rerun |-> FALSE, handed |-> res.handed,
                         skipped |-> res.skipped,
                         failed |-> IF res.handed = 0 THEN {}
                                    ELSE failing \cap (1..Len(t.trades))]
        /\ call' = [NoCall EXCEPT
                      !.conn_lost = (outcome = "connection_lost")]
        /\ UNCHANGED synced

(***************************************************************************)
(* TradeSyncService.backfill_bot.  Its datetimes are in whole days since   *)
(* the start of the exchange history.                                      *)
(***************************************************************************)
DaysPerMonth == 30
BackfillBatchDays == 1
MsPerDay == 86400000

\* The closed-P&L history of the account over the backfill range: the
\* trades of the first day, one closed exactly at the end of the second day
\* and one in the fifth day.
BackfillHistory ==
    ClosedPnlHistory \o
    << [symbol |-> "BTCUSDT", orderId |-> "o7", side |-> "Buy",
        closedSize |-> 5, createdTime |-> 2 * MsPerDay,
        updatedTime |-> 2 * MsPerDay + TickMs,
        avgEntryPrice |-> 100, avgExitPrice |-> 105, closedPnl |-> 20,
        openFee |-> 3, closeFee |-> 2, cumEntryValue |-> 500,
        orderLinkId |-> <<"">>],
       [symbol |-> "ETHUSDT", orderId |-> "o8", side |-> "Sell",
        closedSize |-> 5, createdTime |-> 4 * MsPerDay + TickMs,
        updatedTime |-> 4 * MsPerDay + 2 * TickMs,
        avgEntryPrice |-> 110, avgExitPrice |-> 105, closedPnl |-> 20,
        openFee |-> 3, closeFee |-> 2, cumEntryValue |-> 550,
        orderLinkId |-> <<"">>] >>

\* startTime <= createdTime <= endTime with the window given in days.
InDayWindow(t, start_day, end_day) ==
    /\ start_day <= t \div MsPerDay
    /\ (t + MsPerDay - 1) \div MsPerDay <= end_day

FetchBackfill(start_day, end_day) ==
    SelectSeq(BackfillHistory,
              LAMBDA r : InDayWindow(r.createdTime, start_day, end_day))

\* How a sub-window of the backfill may go.
BatchOutcomes == {"ok", "fetch_raises", "status_write_raises"}

NoBackfill ==
    [pc |-> "idle", start_time |-> 0, end_time |-> 0, current_start |-> 0,
     windows |-> <<>>, failed |-> 0, total_matched |-> 0,
     total_inserted |-> 0]

\* The start of backfill_bot at the datetime today.
start_backfill(months, today) ==
    /\ backfill.pc = "idle"
    /\ backfill' = [NoBackfill EXCEPT
                      !.pc = "loop", !.end_time = today,
                      !.start_time = today - months * DaysPerMonth,
                      !.current_start = today - months * DaysPerMonth]
    /\ UNCHANGED <<sync_status, completed_trades>>

\* The batch is one day short.
BatchEnd_short(current_start, end_time) ==
    Min(current_start + BackfillBatchDays, end_time) - 1

\* min(current_start + batch_size, end_time)
BatchEnd(current_start, end_time) ==
    Min(current_start + BackfillBatchDays, end_time)

\* One iteration of "while current_start < end_time": the call of
\* sync_time_range_closed_pnl on the sub-window, whose exception is logged.
backfill_batch(outcome, failing) ==
    LET current_start == backfill.current_start
        current_end == BatchEnd(current_start, backfill.end_time)
        key == StatusKey(bot_id, "backfill", current_start, current_end)
        trades == map_all(FetchBackfill(current_start, current_end), bot_id)
        res == sync_call(sync_status, completed_trades, key, trades,
                         Len(trades), outcome, failing,
                         Len(backfill.windows) + 1)
    IN  /\ backfill.pc = "loop"
        /\ current_start < backfill.end_time
        /\ res.raised => backfill.failed < MaxFailedBatches
        /\ sync_status' = res.ss
        /\ completed_trades' = res.ct
        /\ backfill' = [backfill EXCEPT
              !.current_start = current_end,
              !.windows = Append(@, [start_time |-> current_start,
                                     end_time |-> current_end]),
              !.failed = @ + (IF res.raised THEN 1 ELSE 0),
              !.total_matched = @ + res.matched,
              !.total_inserted = @ + res.inserted]

\* The loop condition is false: return total_matched, total_inserted.
backfill_return ==
    /\ backfill.pc = "loop"
    /\ ~(backfill.current_start < backfill.end_time)
    /\ backfill' = [backfill EXCEPT !.pc = "returned"]
    /\ UNCHANGED <<sync_status, completed_trades>>

(***************************************************************************)
(* websocket_listener: StreamHandler.handle_execution                      *)
(***************************************************************************)
ExecutionEvents ==
    { [execId |-> "e1", orderId |-> "o1", symbol |-> "BTCUSDT",
       side |-> "Buy", execPrice |-> 100, execQty |-> 10, execFee |-> 3,
       execTime |-> 0, orderLinkId |-> <<"shortseller_001", "entry", "0">>],
      [execId |-> "e2", orderId |-> "o1", symbol |-> "BTCUSDT",
       side |-> "Buy", execPrice |-> 100, execQty |-> 5, execFee |-> 1,
       execTime |-> TickMs,
       orderLinkId |-> <<"shortseller_001", "entry", "0">>],
      [execId |-> "e3", orderId |-> "o2", symbol |-> "BTCUSDT",
       side |-> "Sell", execPrice |-> 105, execQty |-> 10, execFee |-> 2,
       execTime |-> 2 * TickMs,
       orderLinkId |-> <<"shortseller_001", "take_profit", "1">>],
      [execId |-> "e4", orderId |-> "o4", symbol |-> "ETHUSDT",
       side |-> "Sell", execPrice |-> 110, execQty |-> 5, execFee |-> 3,
       execTime |-> TickMs, orderLinkId |-> <<"">>],
      [execId |-> "e5", orderId |-> "o5", symbol |-> "ETHUSDT",
       side |-> "Buy", execPrice |-> 100, execQty |-> 5, execFee |-> 3,
       execTime |-> 2 * TickMs],
      [execId |-> "e6", orderId |-> "o6", symbol |-> "BTCUSDT",
       side |-> "Sell", execPrice |-> 105, execQty |-> 5, execFee |-> 2,
       execTime |-> 2 * TickMs, orderLinkId |-> <<"manual_close">>] }

Exec(id) == CHOOSE e \in ExecutionEvents : e.execId = id

\* The data lists of the execution messages the exchange sends.
ExecutionMessages ==
    { <<Exec("e1")>>, <<Exec("e1"), Exec("e2")>>, <<Exec("e3")>>,
      <<Exec("e4"), Exec("e5")>>, <<Exec("e6")>> }

\* What the store does with the statement of one event: it runs and commits;
\* it raises and the connection stays usable, so that the rollback runs and
\* the same statement would succeed if issued again; or the connection is
\* lost, the statement raises and so does the rollback.
StoreOutcomes == {"ok", "transient_error", "connection_lost"}

\* data.get('orderLinkId', '')
GetOrderLinkId(data) ==
    IF "orderLinkId" \in DOMAIN data THEN data.orderLinkId ELSE <<"">>

\* parse_client_order_id of the listener: a tag with at least two fields
\* gives (bot_id, close_reason); any other tag gives bot 'unknown' and the
\* whole tag as the reason.
\* parts[0] whatever the number of fields.
ListenerBotId_first(tag) == tag[1]

ListenerBotId(tag) == IF Len(tag) >= 2 THEN tag[1] ELSE "unknown"

ListenerCloseReason(tag) == IF Len(tag) >= 2 THEN tag[2] ELSE tag[1]

\* The row of the INSERT INTO trading.fills.
FillRow(data) ==
    [bot_id |-> ListenerBotId(GetOrderLinkId(data)), symbol |-> data.symbol,
     order_id |-> data.orderId, client_order_id |-> GetOrderLinkId(data),
     side |-> data.side, exec_price |-> data.execPrice,
     exec_qty |-> data.execQty, exec_time |-> data.execTime,
     close_reason |-> ListenerCloseReason(GetOrderLinkId(data)),
     commission |-> data.execFee]

InsertFill(table, data) == Append(table, FillRow(data))

\* handle_execution on the listener's tables st: the INSERT and the commit,
\* or the except branch with its rollback; raised tells whether an exception
\* leaves the handler.  Nothing but trading.fills is written.
handle_execution(st, data, outcome) ==
    IF outcome = "ok"
    THEN [st |-> [st EXCEPT !.fills = InsertFill(st.fills, data)],
          raised |-> FALSE]
    ELSE [st |-> st, raised |-> outcome = "connection_lost"]

(***************************************************************************)
(* The position cache.  A Redis value is a string (json tells whether the  *)
(* string is a JSON document, value is the number or the document it       *)
(* spells) or a hash (value is the record of its fields).                  *)
(***************************************************************************)
\* SELECT bot_id FROM trading.bots WHERE status = 'active'
ActiveBots == <<"shortseller_001", "lxalgo_001">>

PositionEvents ==
    { [symbol |-> "BTCUSDT", size |-> 10, side |-> "Buy", avgPrice |-> 100],
      [symbol |-> "BTCUSDT", size |-> 0, side |-> "None", avgPrice |-> 0],
      [symbol |-> "ETHUSDT", size |-> 5, side |-> "Sell", avgPrice |-> 110] }

PositionMessages == {<<data>> : data \in PositionEvents}

\* Where handle_position fails: 0 nowhere; k in 1..Len(ActiveBots) at the
\* upsert for the k-th bot; Len(ActiveBots) + 1 at the final commit.
PositionOutcomes == 0..(Len(ActiveBots) + 1)

RedisSet(rd, key, value) ==
    [k \in DOMAIN rd \cup {key} |-> IF k = key THEN value ELSE rd[k]]

\* f"{bot_id}:position:{symbol}"
ListenerRedisKey(bot, symbol) == bot \o ":position:" \o symbol

\* float(data.get('avgPrice', 0)) if data.get('avgPrice') else None, then
\* str(avg_price) if avg_price else '0'
ListenerAvgPrice(data) == IF data.avgPrice /= 0 THEN data.avgPrice ELSE 0

\* The JSON document written for one bot.
PositionData(data) ==
    [type |-> "string", json |-> TRUE,
     value |-> [symbol |-> data.symbol, size |-> data.size,
                side |-> data.side, avgPrice |-> ListenerAvgPrice(data)]]

\* The row of the INSERT INTO trading.positions ... ON CONFLICT DO UPDATE.
PositionRow(bot, data) ==
    [bot_id |-> bot, symbol |-> data.symbol, size |-> data.size,
     side |-> data.side,
     avg_entry_price |-> IF data.avgPrice /= 0 THEN data.avgPrice ELSE None]

\* The loop writing the first bot only.
PositionLoop_owner(run, data, fail_at, k) ==
    IF fail_at = 1
    THEN [run EXCEPT !.failed = TRUE]
    ELSE [run EXCEPT
             !.pending = RedisSet(@, <<ActiveBots[1], data.symbol>>,
                                  PositionRow(ActiveBots[1], data)),
             !.redis = RedisSet(@, ListenerRedisKey(ActiveBots[1],
                                                    data.symbol),
                                PositionData(data)),
             !.failed = fail_at \in 2..Len(ActiveBots)]

RECURSIVE PositionLoop(_, _, _, _)
\* for bot in bots: the upsert joins the open transaction, the Redis SET
\* takes effect at once.
PositionLoop(run, data, fail_at, k) ==
    IF k > Len(ActiveBots)
    THEN run
    ELSE IF fail_at = k
    THEN [run EXCEPT !.failed = TRUE]
    ELSE PositionLoop(
             [run EXCEPT
                 !.pending = RedisSet(@, <<ActiveBots[k], data.symbol>>,
                                      PositionRow(ActiveBots[k], data)),
                 !.redis = RedisSet(@, ListenerRedisKey(ActiveBots[k],
                                                        data.symbol),
                                    PositionData(data))],
             data, fail_at, k + 1)

\* handle_position: the loop over the active bots, then the commit; any
\* exception is logged and the transaction rolled back.
handle_position(st, data, fail_at) ==
    LET run == PositionLoop([pending |-> st.positions, redis |-> st.redis,
                             failed |-> FALSE], data, fail_at, 1)
        committed == ~run.failed /\ fail_at /= Len(ActiveBots) + 1
    IN  [st |-> [st EXCEPT
                    !.positions = IF committed THEN run.pending ELSE @,
                    !.redis = run.redis],
         raised |-> FALSE]

\* f"position:{self.bot_id}:{symbol}"
ClientPositionKey(bot, symbol) == "position:" \o bot \o ":" \o symbol

DetailsKey(position_key) == position_key \o ":details"

\* AlphaDBClient.update_position_redis of the client of bot: SET of the size
\* and HSET of the details (side or 'None').
update_position_redis(rd, bot, symbol, size, side, avg_price, unrealized_pnl) ==
    LET position_key == ClientPositionKey(bot, symbol)
        details == [size |-> size, side |-> side,
                    avg_price |-> avg_price,
                    unrealized_pnl |-> unrealized_pnl]
    IN  RedisSet(RedisSet(rd, position_key,
                          [type |-> "string", json |-> FALSE,
                           value |-> size]),
                 DetailsKey(position_key),
                 [type |-> "hash", json |-> FALSE, value |-> details])

NoPosition == [found |-> FALSE]

\* AlphaDBClient.get_position_redis of the client of bot: None when the key
\* is missing or float(size) raises.
get_position_redis(rd, bot, symbol) ==
    LET position_key == ClientPositionKey(bot, symbol)
        details_key == DetailsKey(position_key)
    IN  IF position_key \notin DOMAIN rd
        THEN NoPosition
        ELSE IF rd[position_key].type /= "string" \/ rd[position_key].json
        THEN NoPosition
        ELSE [found |-> TRUE,
              size |-> rd[position_key].value,
              side |-> IF details_key \in DOMAIN rd
                       THEN rd[details_key].value.side ELSE None,
              avg_price |-> IF details_key \in DOMAIN rd
                            THEN rd[details_key].value.avg_price ELSE None]

\* The routing of _handle_message for a data message.
Dispatch(topic, st, data, outcome) ==
    IF topic = "execution"
    THEN handle_execution(st, data, outcome)
    ELSE handle_position(st, data, outcome)

StreamEntry(topic, data, outcome, handed) ==
    [topic |-> topic, data |-> data, outcome |-> outcome, handed |-> handed]

\* The events of data_list after position i, which the loop never reaches
\* once a handler has raised.
NotHanded(topic, data_list, outcomes, i) ==
    [j \in 1..(Len(data_list) - i) |->
        StreamEntry(topic, data_list[i + j], outcomes[i + j], FALSE)]

RECURSIVE MessageLoop(_, _, _, _, _)
\* for data in data_list: the handler of the topic is awaited for each
\* event; an exception that leaves a handler ends the loop and is logged
\* by _handle_message.
MessageLoop(topic, st, data_list, outcomes, i) ==
    IF i > Len(data_list)
    THEN st
    ELSE LET r == Dispatch(topic, st, data_list[i], outcomes[i])
             logged ==
                 [r.st EXCEPT !.stream =
                     Append(@, StreamEntry(topic, data_list[i],
                                           outcomes[i], TRUE))]
         IN  IF r.raised
             THEN [logged EXCEPT !.stream =
                      @ \o NotHanded(topic, data_list, outcomes, i)]
             ELSE MessageLoop(topic, logged, data_list, outcomes, i + 1)

handle_message(topic, data_list, outcomes) ==
    /\ Len(stream) + Len(data_list) <= MaxEvents
    /\ LET res == MessageLoop(topic,
                              [fills |-> fills, stream |-> stream,
                               positions |-> positions, redis |-> redis],
                              data_list, outcomes, 1)
       IN  /\ fills' = res.fills
           /\ stream' = res.stream
           /\ positions' = res.positions
           /\ redis' = res.redis
    /\ UNCHANGED completed_trades
    /\ UNCHANGED lot_vars
    /\ UNCHANGED sync_vars
    /\ UNCHANGED conc_vars
    /\ UNCHANGED svc_vars
    /\ UNCHANGED last_reconcile

(***************************************************************************)
(* position_reconciliation: reconcile_positions_on_startup                 *)
(***************************************************************************)
Put(f, key, value) ==
    [k \in DOMAIN f \cup {key} |-> IF k = key THEN value ELSE f[k]]

\* ORDER BY symbol
SortedSymbols == <<"BTCUSDT", "ETHUSDT">>

RECURSIVE OpenEntriesBySymbol(_, _)
OpenEntriesBySymbol(pe, symbols) ==
    IF symbols = <<>> THEN <<>>
    ELSE OpenEntries(pe, Head(symbols))
         \o OpenEntriesBySymbol(pe, Tail(symbols))

\* get_open_position_entries(): the open lots ORDER BY symbol, entry_time;
\* [] when the query raises.
get_open_position_entries(pe, ledger_ok) ==
    IF ledger_ok THEN OpenEntriesBySymbol(pe, SortedSymbols) ELSE <<>>

\* What exchange_client.get_positions() may return.
ExchangeReports ==
    LET btc == [symbol |-> "BTCUSDT", size |-> 12, side |-> "Buy",
                unrealisedPnl |-> 7]
        eth == [symbol |-> "ETHUSDT", size |-> 5, side |-> "Sell",
                unrealisedPnl |-> 3]
        flat == [symbol |-> "ETHUSDT", size |-> 0, side |-> "None",
                 unrealisedPnl |-> 0]
    IN  { <<>>, <<btc>>, <<eth>>, <<btc, eth>>, <<btc, flat>> }

\* {pos.get('symbol'): pos for pos in exchange_positions if size > 0}
ExchangePosMap(exchange_positions) ==
    LET live == {i \in 1..Len(exchange_positions) :
                    exchange_positions[i].size > 0}
    IN  [symbol \in {exchange_positions[i].symbol : i \in live} |->
            exchange_positions[CHOOSE i \in live :
                /\ exchange_positions[i].symbol = symbol
                /\ \A j \in live :
                      exchange_positions[j].symbol = symbol => j <= i]]

\* How the backfill of a symbol closed on the exchange goes: the closed-P&L
\* history has a record of the symbol, has none, or the call raises; the
\* store raises in slice fail_at of close_position_fifo; or the store
\* raises at every statement.
ClosedOutcomes ==
    {[kind |-> k, fail_at |-> 0] :
        k \in {"found", "not_found", "history_raises", "store_down"}}
    \cup {[kind |-> "close_raises", fail_at |-> n] : n \in 1..MaxLots}

RECURSIVE SumRemainingQty(_)
\* sum(float(e['remaining_qty']) for e in entries)
SumRemainingQty(entries) ==
    IF entries = <<>> THEN 0
    ELSE Head(entries).remaining_qty + SumRemainingQty(Tail(entries))

RECURSIVE SumPriceQty(_)
SumPriceQty(entries) ==
    IF entries = <<>> THEN 0
    ELSE Head(entries).entry_price * Head(entries).remaining_qty
         + SumPriceQty(Tail(entries))

RECURSIVE SumPrice(_)
SumPrice(entries) ==
    IF entries = <<>> THEN 0
    ELSE Head(entries).entry_price + SumPrice(Tail(entries))

\* The plain mean of the entry prices.
WeightedAvgPrice_mean(entries) == Rat(SumPrice(entries), Len(entries))

WeightedAvgPrice(entries) ==
    Rat(SumPriceQty(entries), SumRemainingQty(entries))

\* _restore_position_to_redis_from_exchange on rs = [pe, ct, redis, branch]
restore_position_to_redis_from_exchange(rs, symbol, entries, exchange_pos) ==
    IF SumRemainingQty(entries) = 0
    THEN rs
    ELSE [rs EXCEPT !.redis =
            update_position_redis(@, bot_id, symbol, exchange_pos.size,
                                  exchange_pos.side,
                                  WeightedAvgPrice(entries),
                                  exchange_pos.unrealisedPnl)]

\* _restore_position_to_redis: one entry, side 'Buy'.
restore_position_to_redis(rs, entry) ==
    [rs EXCEPT !.redis =
        update_position_redis(@, bot_id, entry.symbol, entry.remaining_qty,
                              "Buy", RInt(entry.entry_price), 0),
               !.branch = Put(@, entry.symbol, "EXCHANGE_UNREACHABLE")]

RECURSIVE RestoreAll(_, _)
\* for db_pos in db_positions: _restore_position_to_redis(db_client, db_pos)
RestoreAll(rs, db_positions) ==
    IF db_positions = <<>> THEN rs
    ELSE RestoreAll(restore_position_to_redis(rs, Head(db_positions)),
                    Tail(db_positions))

\* The UPDATE sets the status and leaves the remaining quantity.
MarkClosed_status_only(pe, entries) ==
    [k \in DOMAIN pe |->
        IF k \in {entries[i].entry_id : i \in 1..Len(entries)}
        THEN [pe[k] EXCEPT !.status = "closed"]
        ELSE pe[k]]

\* UPDATE trading.position_entries SET remaining_qty = 0, status = 'closed'
\* for each entry.
MarkClosed(pe, entries) ==
    [k \in DOMAIN pe |->
        IF k \in {entries[i].entry_id : i \in 1..Len(entries)}
        THEN [pe[k] EXCEPT !.remaining_qty = 0, !.status = "closed"]
        ELSE pe[k]]

\* The first record of the symbol in the history, most recent first.
FindClose(records, symbol) ==
    LET idx == {i \in 1..Len(records) : records[i].symbol = symbol}
    IN  IF idx = {} THEN [found |-> FALSE]
        ELSE [found |-> TRUE,
              record |-> records[CHOOSE i \in idx : \A j \in idx : i <= j]]

\* _backfill_closed_position
backfill_closed_position(rs, symbol, entries, outcome) ==
    LET history == IF outcome.kind = "not_found" THEN <<>>
                   ELSE ClosedPnlHistory
        symbol_close == FindClose(history, symbol)
        forced == [rs EXCEPT !.pe = MarkClosed(@, entries),
                             !.branch = Put(@, symbol,
                                 "EXCHANGE_CLOSED_UNRECOVERABLE")]
    IN  IF outcome.kind = "history_raises"
        THEN forced
        ELSE IF outcome.kind = "store_down"
        THEN [rs EXCEPT !.branch =
                Put(@, symbol, IF symbol_close.found
                               THEN "EXCHANGE_CLOSED_RECOVERED"
                               ELSE "EXCHANGE_CLOSED_UNRECOVERABLE")]
        ELSE IF ~symbol_close.found
        THEN forced
        ELSE LET exit_price == symbol_close.record.avgExitPrice
                 exit_qty == SumRemainingQty(entries)
                 exit_time == symbol_close.record.updatedTime
                 res == CloseLoopFailing(
                            [pe |-> rs.pe, ct |-> rs.ct, out |-> <<>>,
                             remaining_to_close |-> exit_qty],
                            OpenEntries(rs.pe, symbol), symbol, exit_price,
                            exit_qty, exit_time, "backfilled_close",
                            RInt(0), outcome.fail_at)
             IN  [rs EXCEPT
                    !.pe = IF res.raised THEN MarkClosed(res.st.pe, entries)
                           ELSE res.st.pe,
                    !.ct = res.st.ct,
                    !.branch = Put(@, symbol, "EXCHANGE_CLOSED_RECOVERED")]

RECURSIVE ReconcileSymbols(_, _, _, _, _)
\* for symbol, entries in db_symbols.items()
ReconcileSymbols(rs, db_positions, symbols, exchange_pos_map, outcome) ==
    IF symbols = <<>> THEN rs
    ELSE LET symbol == Head(symbols)
             entries == SelectSeq(db_positions,
                                  LAMBDA e : e.symbol = symbol)
             next ==
                 IF entries = <<>>
                 THEN rs
                 ELSE IF symbol \in DOMAIN exchange_pos_map
                 THEN [restore_position_to_redis_from_exchange(
                           rs, symbol, entries, exchange_pos_map[symbol])
                       EXCEPT !.branch = Put(@, symbol, "EXCHANGE_OPEN")]
                 ELSE backfill_closed_position(rs, symbol, entries, outcome)
         IN  ReconcileSymbols(next, db_positions, Tail(symbols),
                              exchange_pos_map, outcome)

NoReconcile ==
    [done |-> FALSE, branch |-> <<>>, exchange |-> <<>>, live |-> <<>>,
     ledger_ok |-> TRUE, exchange_ok |-> TRUE, outcome |-> [kind |-> "found", fail_at |-> 0]]

reconcile_positions_on_startup(ledger_ok, exchange_ok, exchange_positions, outcome) ==
    LET db_positions ==
            get_open_position_entries(position_entries, ledger_ok)
        start == [pe |-> position_entries, ct |-> completed_trades,
                  redis |-> redis, branch |-> <<>>]
        exchange_pos_map == ExchangePosMap(exchange_positions)
        res == IF db_positions = <<>>
               THEN start
               ELSE IF ~exchange_ok
               THEN RestoreAll(start, db_positions)
               ELSE ReconcileSymbols(start, db_positions, SortedSymbols,
                                     exchange_pos_map, outcome)
    IN  /\ ~last_reconcile.done
        /\ position_entries' = res.pe
        /\ completed_trades' = res.ct
        /\ redis' = res.redis
        /\ last_reconcile' =
              [done |-> TRUE, branch |-> res.branch,
               exchange |-> IF exchange_ok /\ db_positions /= <<>>
                            THEN exchange_pos_map ELSE <<>>,
               live |-> exchange_pos_map,
               ledger_ok |-> ledger_ok, exchange_ok |-> exchange_ok,
               outcome |-> outcome]
        /\ UNCHANGED <<last_close, last_failure, fills, stream, positions>>
        /\ UNCHANGED sync_vars
        /\ UNCHANGED conc_vars
        /\ UNCHANGED svc_vars

(***************************************************************************)
(* close_position_fifo run by two clients of the same bot at once, each on *)
(* its own connection.  A step is what one connection does between two     *)
(* points where it can wait for a row lock: the SELECT ... FOR UPDATE, and  *)
(* each slice (UPDATE of the lot, then record_completed_trade with its      *)
(* INSERT and its commit, which ends the transaction and releases every    *)
(* row lock of the connection).                                            *)
(***************************************************************************)
Procs == {"live", "backfill"}

IdleProc == [pc |-> "idle", symbol |-> "", close_qty |-> 0, exit_price |-> 0,
             exit_time |-> 0, entries |-> <<>>, idx |-> 1,
             remaining_to_close |-> 0, locks |-> {}]

\* Rows locked by the open transaction of a connection other than p.
LockedByOther(p) == UNION {procs[q].locks : q \in Procs \ {p}}

EntryIds(entries) == {entries[i].entry_id : i \in 1..Len(entries)}

\* The SELECT ... FOR UPDATE: it waits while another transaction holds the
\* lock of a selected row, then returns the rows and holds their locks;
\* "if not entries: return []".
select_for_update(p, symbol, exit_price, close_qty, exit_time) ==
    LET entries == OpenEntries(position_entries, symbol)
    IN  /\ procs[p].pc = "idle"
        /\ EntryIds(entries) \cap LockedByOther(p) = {}
        /\ procs' = [procs EXCEPT ![p] =
              [pc |-> IF entries = <<>> THEN "done" ELSE "loop",
               symbol |-> symbol, close_qty |-> close_qty,
               exit_price |-> exit_price, exit_time |-> exit_time,
               entries |-> entries, idx |-> 1,
               remaining_to_close |-> close_qty,
               locks |-> EntryIds(entries)]]
        /\ UNCHANGED <<position_entries, completed_trades, last_close,
                       last_failure, closed_qty>>
        /\ UNCHANGED sync_vars
        /\ UNCHANGED ingest_vars
        /\ UNCHANGED last_reconcile
        /\ UNCHANGED svc_vars

LoopDone(pr) == pr.idx > Len(pr.entries) \/ pr.remaining_to_close <= 0

ClosedOf(k) == IF k \in DOMAIN closed_qty THEN closed_qty[k] ELSE 0

\* One iteration of "for entry in entries" on the rows fetched by the
\* SELECT: the UPDATE waits for the row lock if another transaction holds
\* it, record_completed_trade commits.
close_slice(p, exit_commission) ==
    LET pr == procs[p]
        entry == pr.entries[pr.idx]
        res == CloseSlice([pe |-> position_entries, ct |-> completed_trades,
                           out |-> <<>>,
                           remaining_to_close |-> pr.remaining_to_close],
                          entry, pr.symbol, pr.exit_price, pr.close_qty,
                          pr.exit_time, "take_profit", exit_commission)
    IN  /\ pr.pc = "loop"
        /\ ~LoopDone(pr)
        /\ entry.entry_id \notin LockedByOther(p)
        /\ position_entries' = res.pe
        /\ completed_trades' = res.ct
        /\ procs' = [procs EXCEPT ![p] =
              [@ EXCEPT !.idx = @ + 1,
                        !.remaining_to_close = res.remaining_to_close,
                        !.locks = {}]]
        /\ closed_qty' =
              [k \in DOMAIN closed_qty \cup {entry.entry_id} |->
                  IF k = entry.entry_id
                  THEN ClosedOf(k) + res.out[1].quantity
                  ELSE closed_qty[k]]
        /\ UNCHANGED <<last_close, last_failure>>
        /\ UNCHANGED sync_vars
        /\ UNCHANGED ingest_vars
        /\ UNCHANGED last_reconcile
        /\ UNCHANGED svc_vars

\* The end of the loop: the final commit and the return.
close_return(p) ==
    /\ procs[p].pc = "loop"
    /\ LoopDone(procs[p])
    /\ procs' = [procs EXCEPT ![p] = [@ EXCEPT !.pc = "done", !.locks = {}]]
    /\ UNCHANGED <<position_entries, completed_trades, last_close,
                   last_failure, closed_qty>>
    /\ UNCHANGED sync_vars
    /\ UNCHANGED ingest_vars
    /\ UNCHANGED last_reconcile
    /\ UNCHANGED svc_vars

(***************************************************************************)
(* The lot ledger: entries are created and closed in any order.            *)
(***************************************************************************)
(***************************************************************************)
(* BybitSyncClient: the rate limiter and the paginated fetches.  Times are *)
(* in milliseconds.  A cursor is absent, the empty string, or a text held  *)
(* as the tuple of its characters and %-escapes.                           *)
(***************************************************************************)
RateLimitDelayMs == 120
PageSleepMs == 100
\* How long a request may take to be answered.
Latencies == {0, 50}

NoCursor == [kind |-> "none", text |-> <<>>]
EmptyCursor == [kind |-> "text", text |-> <<>>]
TextCursor(text) == [kind |-> "text", text |-> text]

\* "if cursor:" / "not next_cursor": None and "" are false.
Truthy(cursor) == cursor.kind = "text" /\ cursor.text /= <<>>

\* urllib.parse.unquote on the escapes that occur in cursors.
UnquotePiece(piece) ==
    IF piece = "%3D" THEN "="
    ELSE IF piece = "%2C" THEN ","
    ELSE piece

Unquote(text) == [i \in 1..Len(text) |-> UnquotePiece(text[i])]

\* What a page of the exchange may be: a full page with a cursor to the
\* next one (with or without escapes), a shorter page with no cursor or an
\* empty one, or an empty list with or without a cursor.
PageChoices ==
    { [n |-> 2, next |-> TextCursor(<<"a", "%3D", "1">>)],
      [n |-> 2, next |-> TextCursor(<<"b", "2">>)],
      [n |-> 1, next |-> NoCursor],
      [n |-> 1, next |-> EmptyCursor],
      [n |-> 0, next |-> TextCursor(<<"c", "%2C", "3">>)],
      [n |-> 0, next |-> NoCursor] }

LastPage(page) == ~Truthy(page.next) \/ page.n = 0

\* The records of the k-th page received.
PageRecords(k, n) == [i \in 1..n |-> [page |-> k, item |-> i]]

Endpoint(kind) ==
    IF kind = "closed_pnl" THEN "/v5/position/closed-pnl"
    ELSE "/v5/execution/list"

IdlePager ==
    [pc |-> "idle", kind |-> "closed_pnl", cursor |-> NoCursor,
     all_records |-> <<>>, requests |-> <<>>, pages |-> <<>>,
     now |-> MsPerSecond, last_request_time |-> 0]

\* Freeing the limiter: pass through without waiting.
rate_limit_nowait(pg) == [pg EXCEPT !.last_request_time = pg.now]

\* _rate_limit: sleep until RATE_LIMIT_DELAY has passed since the last
\* request, then stamp last_request_time.
rate_limit(pg) ==
    LET time_since_last_request == pg.now - pg.last_request_time
        woke == IF time_since_last_request < RateLimitDelayMs
                THEN pg.now + (RateLimitDelayMs - time_since_last_request)
                ELSE pg.now
    IN  [pg EXCEPT !.now = woke, !.last_request_time = woke]

\* The request sent without passing the limiter.
make_request_unlimited(pg, endpoint, cursor) ==
    [pg EXCEPT !.requests = Append(@, [endpoint |-> endpoint,
                                       cursor |-> NoCursor, at |-> pg.now])]

\* _make_request up to the sending of the request: the limiter, then the
\* query string with every parameter value URL-decoded.
make_request(pg, endpoint, cursor) ==
    LET limited == rate_limit(pg)
        sent == [endpoint |-> endpoint,
                 cursor |-> IF Truthy(cursor)
                            THEN TextCursor(Unquote(cursor.text))
                            ELSE NoCursor,
                 at |-> limited.last_request_time]
    IN  [limited EXCEPT !.requests = Append(@, sent)]

\* get_all_closed_pnl_in_range / get_all_executions_in_range: the start of
\* the call.
start_fetch(kind) ==
    /\ pager.pc = "idle"
    /\ pager' = [pager EXCEPT !.pc = "loop", !.kind = kind]

\* One iteration of "while True": the request, the answer after `latency`,
\* and either the break and the return, or the new cursor and the sleep.
\* The exchange sends a last page within MaxPages pages.
fetch_page(page, latency) ==
    LET asked == make_request(pager, Endpoint(pager.kind), pager.cursor)
        k == Len(pager.pages) + 1
        got == [asked EXCEPT
                  !.now = @ + latency,
                  !.pages = Append(@, page),
                  !.all_records = @ \o PageRecords(k, page.n)]
    IN  /\ pager.pc = "loop"
        /\ k = MaxPages => LastPage(page)
        /\ pager' =
              IF ~Truthy(page.next) \/ page.n = 0
              THEN [got EXCEPT !.pc = "returned"]
              ELSE [got EXCEPT !.cursor = page.next,
                               !.now = @ + PageSleepMs]

\* The request raises (HTTP error or retCode /= 0): the exception leaves
\* the fetch.
fetch_raises(latency) ==
    LET asked == make_request(pager, Endpoint(pager.kind), pager.cursor)
    IN  /\ pager.pc = "loop"
        /\ pager' = [asked EXCEPT !.pc = "raised", !.now = @ + latency]

(***************************************************************************)
(* TradeSyncService.run_continuous_sync under ServiceRunner.run_continuous *)
(* (SIGINT and SIGTERM are handled by signal_handler).  Datetimes are in   *)
(* milliseconds since the start of the exchange history.                   *)
(***************************************************************************)
SyncIntervalSeconds == 3600
HourlySyncOverlapHours == 2
MsPerHour == 3600000

RegisteredBots == <<"shortseller_001", "lxalgo_001", "momentum_001">>

\* How a window of the continuous service may go: SIGINT no longer
\* interrupts the task.
ServiceOutcomes == SyncOutcomes \ {"interrupted"}

IdleService ==
    [pc |-> "idle", is_running |-> FALSE, signalled |-> FALSE, bot |-> 0,
     rounds |-> 0, now |-> MsPerHour]

\* hourly_sync_all_bots moves to the next bot, or returns to the loop,
\* which goes to sleep.
NextBot(sv) ==
    [sv EXCEPT !.bot = @ + 1,
               !.pc = IF sv.bot = Len(RegisteredBots)
                      THEN "sleeping" ELSE "round"]

\* self.is_running = True, then the first test of the loop condition.
run_continuous_sync ==
    /\ service.pc = "idle"
    /\ service' = [service EXCEPT !.pc = "check", !.is_running = TRUE]
    /\ UNCHANGED <<sync_status, completed_trades, last_sync, synced, call>>

\* while self.is_running: a round of hourly_sync_all_bots begins, or the
\* coroutine returns.
loop_check ==
    /\ service.pc = "check"
    /\ service.is_running => service.rounds < MaxRounds
    /\ service' = IF service.is_running
                  THEN [service EXCEPT !.pc = "round", !.bot = 1,
                                       !.rounds = @ + 1]
                  ELSE [service EXCEPT !.pc = "returned"]
    /\ UNCHANGED <<sync_status, completed_trades, last_sync, synced, call>>

\* hourly_sync_bot of the next bot up to the await of the exchange; when
\* create_sync_status raises, hourly_sync_all_bots logs it and goes on.
hourly_sync_begin ==
    LET bot == RegisteredBots[service.bot]
        end_time == service.now
        start_time == end_time - HourlySyncOverlapHours * MsPerHour
    IN  /\ service.pc = "round"
        /\ ~call.active
        /\ \/ /\ begin_sync("executions", bot, "hourly", start_time,
                            end_time)
              /\ UNCHANGED service
           \/ /\ begin_sync_raises("executions", start_time, end_time)
              /\ service' = NextBot(service)

\* The rest of the window; an exception is logged by hourly_sync_all_bots.
hourly_sync_end(outcome, failing) ==
    /\ service.pc = "round"
    /\ end_sync(outcome, failing)
    /\ service' = NextBot(service)

\* asyncio.sleep(SYNC_INTERVAL_SECONDS) is over.
sleep_over ==
    /\ service.pc = "sleeping"
    /\ service' = [service EXCEPT
                     !.pc = "check",
                     !.now = @ + SyncIntervalSeconds * MsPerSecond]
    /\ UNCHANGED <<sync_status, completed_trades, last_sync, synced, call>>

\* ServiceRunner.signal_handler: stop_continuous_sync.
signal_handler ==
    /\ service.pc \notin {"idle", "returned"}
    /\ ~service.signalled
    /\ service' = [service EXCEPT !.is_running = FALSE,
                                  !.signalled = TRUE]
    /\ UNCHANGED <<sync_status, completed_trades, last_sync, synced, call>>

(***************************************************************************)
(* BybitWebSocketClient: connect(), the messages of the handshake and      *)
(* stop().  The coroutine is suspended at its awaits (the opening of the   *)
(* connection, the next message, the sleep before a retry), where stop()   *)
(* may be called.                                                          *)
(***************************************************************************)
IdleClient ==
    [pc |-> "idle", running |-> FALSE, stopped |-> FALSE, conns |-> 0,
     open |-> FALSE, closing |-> FALSE, auth_requests |-> 0,
     auth_pending |-> FALSE, auth_ok |-> FALSE, subscriptions |-> 0,
     acks |-> 0, heartbeats |-> 0]

\* self.running = True
connect ==
    /\ ws.pc = "idle"
    /\ ws' = [ws EXCEPT !.pc = "check", !.running = TRUE]

\* while self.running: websockets.connect(...) is awaited, or connect()
\* returns.
connect_loop ==
    /\ ws.pc = "check"
    /\ ws' = [ws EXCEPT !.pc = IF ws.running THEN "connecting"
                               ELSE "returned"]

\* The connection is open: self.ws = ws, _authenticate(), and a heartbeat
\* task is created.
connection_opened ==
    /\ ws.pc = "connecting"
    /\ ws.conns < MaxConns
    /\ ws' = [ws EXCEPT !.pc = "listening", !.conns = @ + 1,
                        !.open = TRUE, !.closing = FALSE,
                        !.auth_requests = 1, !.auth_pending = TRUE,
                        !.auth_ok = FALSE, !.subscriptions = 0,
                        !.acks = 0, !.heartbeats = @ + 1]

\* websockets.connect raises: except Exception, asyncio.sleep(5).
connection_refused ==
    /\ ws.pc = "connecting"
    /\ ws' = [ws EXCEPT !.pc = "sleeping"]

\* _handle_message on the answer to the auth request.
handle_auth(success) ==
    /\ ws.pc = "listening"
    /\ ws.open
    /\ ws.auth_pending
    /\ ws' = IF success
             THEN [ws EXCEPT !.auth_pending = FALSE, !.auth_ok = TRUE,
                             !.subscriptions = @ + 1]
             ELSE [ws EXCEPT !.auth_pending = FALSE]

\* _handle_message on the answer to the subscription request.
handle_subscribe_ack ==
    /\ ws.pc = "listening"
    /\ ws.open
    /\ ws.acks < ws.subscriptions
    /\ ws' = [ws EXCEPT !.acks = @ + 1]

\* The connection closes: cleanly (the message loop ends, the heartbeat
\* task is cancelled and the while loop goes on at once) or with
\* ConnectionClosed (asyncio.sleep(5); the heartbeat task lives on).  The
\* last connection of a run closes only when stop() closes it.
connection_closed(clean) ==
    /\ ws.pc = "listening"
    /\ ws.open
    /\ ws.conns < MaxConns \/ ws.closing
    /\ ws.closing => clean
    /\ ws' = [ws EXCEPT !.pc = IF clean THEN "check" ELSE "sleeping",
                        !.open = FALSE, !.closing = FALSE,
                        !.auth_pending = FALSE,
                        !.heartbeats = IF clean THEN @ - 1 ELSE @]

\* asyncio.sleep(5) is over.
retry_sleep_over ==
    /\ ws.pc = "sleeping"
    /\ ws' = [ws EXCEPT !.pc = "check"]

\* _heartbeat: a task that wakes when self.running is False ends.
heartbeat_ends ==
    /\ ~ws.running
    /\ ws.heartbeats > 0
    /\ ws' = [ws EXCEPT !.heartbeats = @ - 1]

\* stop(): self.running = False; self.ws.close() is scheduled when self.ws
\* is set (closing a connection that is closed already does nothing).
stop ==
    /\ ws.pc \notin {"idle", "returned"}
    /\ ~ws.stopped
    /\ ws' = [ws EXCEPT !.running = FALSE, !.stopped = TRUE,
                        !.closing = ws.open]

(***************************************************************************)
(* The message loop of connect() and the loop of _handle_message over the  *)
(* events of a data message, step by step: a handler is suspended at its   *)
(* INSERT while the exchange delivers further messages to the socket.      *)
(* An event is named <<m, i>>: the i-th event of the m-th message.         *)
(***************************************************************************)
IdleConsumer ==
    [arrived |-> <<>>, taken |-> 0, idx |-> 1, pc |-> "waiting",
     in_handler |-> {}, written |-> <<>>]

\* The exchange delivers a data message of the execution topic.
deliver(data_list) ==
    /\ Len(consumer.arrived) < MaxMessages
    /\ consumer' = [consumer EXCEPT !.arrived = Append(@, data_list)]
    /\ UNCHANGED fills

\* The handlers are scheduled as tasks and the loop goes on.
HandlerAwaited_task(c) == TRUE

\* await self.handler.handle_execution(data): the loop goes on only when
\* the handler it called has returned or raised.
HandlerAwaited(c) == c.in_handler = {}

\* async for message in ws: the next message in arrival order, once
\* _handle_message has returned for the one before.
next_message ==
    /\ consumer.pc = "waiting"
    /\ consumer.taken < Len(consumer.arrived)
    /\ consumer' = [consumer EXCEPT !.taken = @ + 1, !.idx = 1,
                                    !.pc = "loop"]
    /\ UNCHANGED fills

\* for data in data_list: handle_execution is called on the next event.
handler_begins ==
    /\ consumer.pc = "loop"
    /\ consumer.idx <= Len(consumer.arrived[consumer.taken])
    /\ HandlerAwaited(consumer)
    /\ consumer' = [consumer EXCEPT
                      !.in_handler = @ \cup {<<consumer.taken, consumer.idx>>},
                      !.idx = @ + 1]
    /\ UNCHANGED fills

\* A handler that has started ends: its INSERT is committed, or rolled
\* back, or the exception of a lost connection leaves it and ends the loop
\* over the message.
handler_ends(ev, outcome) ==
    LET data == consumer.arrived[ev[1]][ev[2]]
        res == handle_execution([fills |-> fills], data, outcome)
    IN  /\ ev \in consumer.in_handler
        /\ fills' = res.st.fills
        /\ consumer' = [consumer EXCEPT
              !.in_handler = @ \ {ev},
              !.written = IF outcome = "ok" THEN Append(@, ev) ELSE @,
              !.idx = IF res.raised /\ ev[1] = consumer.taken
                      THEN Len(consumer.arrived[consumer.taken]) + 1
                      ELSE @]

\* The loop over the message is over: _handle_message returns.
message_done ==
    /\ consumer.pc = "loop"
    /\ consumer.idx > Len(consumer.arrived[consumer.taken])
    /\ HandlerAwaited(consumer)
    /\ consumer' = [consumer EXCEPT !.pc = "waiting"]
    /\ UNCHANGED fills

NotMatched == [done |-> FALSE, trades |-> <<>>]

\* Everything but the input of the trade matcher.
InitStores ==
    /\ match_out = NotMatched
    /\ backfill = NoBackfill
    /\ call = NoCall
    /\ service = IdleService
    /\ ws = IdleClient
    /\ consumer = IdleConsumer
    /\ pager = IdlePager
    /\ position_entries = <<>>
    /\ completed_trades = <<>>
    /\ last_close = NoClose
    /\ last_failure = NoFailure
    /\ sync_status = <<>>
    /\ last_sync = NoSync
    /\ synced = {}
    /\ fills = <<>>
    /\ stream = <<>>
    /\ positions = <<>>
    /\ redis = <<>>
    /\ procs = [p \in Procs |-> IdleProc]
    /\ closed_qty = <<>>
    /\ last_reconcile = NoReconcile

Init ==
    /\ InitStores
    /\ match_in = <<>>

CreateEntry ==
    \E f \in EntryFills :
        create_position_entry(f.symbol, f.price, f.qty, f.time,
                              RInt(f.commission), f.side)

ClosePosition ==
    \E symbol \in Symbols, exit_price \in ExitPrices, close_qty \in CloseQtys,
       exit_time \in Times, exit_reason \in ExitReasons,
       exit_commission \in ExitCommissions :
        close_position_fifo(symbol, exit_price, close_qty, exit_time,
                            exit_reason, RInt(exit_commission))

ClosePositionRaising ==
    \E symbol \in Symbols, exit_price \in ExitPrices, close_qty \in CloseQtys,
       exit_time \in Times, exit_reason \in ExitReasons,
       exit_commission \in ExitCommissions, fail_at \in 1..MaxLots :
        close_position_fifo_raising(symbol, exit_price, close_qty, exit_time,
                                    exit_reason, RInt(exit_commission),
                                    fail_at)

Next == CreateEntry \/ ClosePosition \/ ClosePositionRaising

Spec == Init /\ [][Next]_vars

(***************************************************************************)
(* The lot ledger before a restart and the reconciliation at startup,      *)
(* which runs once, before anything else touches the ledger again.         *)
(***************************************************************************)
\* Quantities closed before the restart: less than any lot.
PartialCloseQtys == {q \in CloseQtys : \A f \in EntryFills : q < f.qty}

EntryBeforeRestart == ~last_reconcile.done /\ CreateEntry

CloseBeforeRestart ==
    /\ ~last_reconcile.done
    /\ \E symbol \in Symbols, exit_price \in ExitPrices,
          close_qty \in PartialCloseQtys, exit_reason \in ExitReasons,
          exit_commission \in ExitCommissions :
           close_position_fifo(symbol, exit_price, close_qty, 2 * TickMs,
                               exit_reason, RInt(exit_commission))

\* Cache entries left by the bot before the restart, which may be stale:
\* update_position_redis(symbol, size, side, avg_price, unrealized_pnl).
StaleCacheEntries ==
    { [symbol |-> "BTCUSDT", size |-> 3, side |-> "Buy", avg_price |-> 90,
       unrealized_pnl |-> 1],
      [symbol |-> "ETHUSDT", size |-> 7, side |-> "Sell", avg_price |-> 120,
       unrealized_pnl |-> 2] }

CacheBeforeRestart ==
    /\ ~last_reconcile.done
    /\ \E e \in StaleCacheEntries :
          /\ ~get_position_redis(redis, bot_id, e.symbol).found
          /\ redis' = update_position_redis(redis, bot_id, e.symbol, e.size,
                                            e.side, RInt(e.avg_price),
                                            e.unrealized_pnl)
    /\ UNCHANGED <<completed_trades, fills, stream, positions>>
    /\ UNCHANGED lot_vars
    /\ UNCHANGED sync_vars
    /\ UNCHANGED conc_vars
    /\ UNCHANGED svc_vars
    /\ UNCHANGED last_reconcile

Reconcile ==
    \E ledger_ok \in BOOLEAN, exchange_ok \in BOOLEAN,
       exchange_positions \in ExchangeReports, outcome \in ClosedOutcomes :
        reconcile_positions_on_startup(ledger_ok, exchange_ok,
                                       exchange_positions, outcome)

NextReconcile ==
    EntryBeforeRestart \/ CloseBeforeRestart \/ CacheBeforeRestart \/ Reconcile

SpecReconcile == Init /\ [][NextReconcile]_vars

(***************************************************************************)
(* The lot ledger under entries, closes and the reconciliation of a        *)
(* restart, in any order.                                                  *)
(***************************************************************************)
\* A close of any quantity at the latest time.
CloseLate ==
    \E symbol \in Symbols, exit_price \in ExitPrices, close_qty \in CloseQtys,
       exit_reason \in ExitReasons, exit_commission \in ExitCommissions :
        close_position_fifo(symbol, exit_price, close_qty, MaxTick * TickMs,
                            exit_reason, RInt(exit_commission))

\* The reconciliation with the ledger and the exchange reachable, the
\* exchange holding no position or one of BTCUSDT.
ReconcileReachable ==
    \E exchange_positions \in {r \in ExchangeReports : Len(r) <= 1},
       outcome \in {o \in ClosedOutcomes : o.kind \in {"found", "not_found"}} :
        /\ \A i \in 1..Len(exchange_positions) :
              exchange_positions[i].symbol = "BTCUSDT"
        /\ reconcile_positions_on_startup(TRUE, TRUE, exchange_positions,
                                          outcome)

NextLots == CreateEntry \/ CloseLate \/ ReconcileReachable

SpecLots == Init /\ [][NextLots]_vars

(***************************************************************************)
(* The lot ledger closed by a live client and a backfill client at once.   *)
(***************************************************************************)
BeginClose ==
    \E p \in Procs, symbol \in Symbols, exit_price \in ExitPrices,
       close_qty \in CloseQtys, exit_time \in Times :
        select_for_update(p, symbol, exit_price, close_qty, exit_time)

SliceClose ==
    \E p \in Procs, exit_commission \in ExitCommissions :
        close_slice(p, RInt(exit_commission))

EndClose == \E p \in Procs : close_return(p)

NextConc == CreateEntry \/ BeginClose \/ SliceClose \/ EndClose

SpecConc == Init /\ [][NextConc]_vars

(***************************************************************************)
(* The completed-trade ledger fed by the three ingestion paths: trades     *)
(* recorded live and the two sync methods over windows of the exchange     *)
(* history.                                                                *)
(***************************************************************************)
LiveTrades ==
    { [symbol |-> "BTCUSDT", entry_price |-> 100, qty |-> 10,
       entry_time |-> 0, exit_price |-> 105, exit_time |-> 2 * TickMs,
       entry_commission |-> 3, exit_commission |-> 2],
      [symbol |-> "BTCUSDT", entry_price |-> 100, qty |-> 4,
       entry_time |-> 0, exit_price |-> 90, exit_time |-> 2 * TickMs,
       entry_commission |-> 1, exit_commission |-> 1],
      [symbol |-> "BTCUSDT", entry_price |-> 110, qty |-> 5,
       entry_time |-> TickMs, exit_price |-> 105, exit_time |-> 2 * TickMs,
       entry_commission |-> 3, exit_commission |-> 2] }

RecordLiveTrade ==
    \E t \in LiveTrades :
        /\ completed_trades' =
              record_completed_trade(completed_trades, t.symbol, "Buy",
                  t.entry_price, t.qty, t.entry_time, "entry", "Sell",
                  t.exit_price, t.qty, t.exit_time, "take_profit",
                  RInt(t.entry_commission), RInt(t.exit_commission)).ct
        /\ UNCHANGED lot_vars
        /\ UNCHANGED sync_vars
        /\ UNCHANGED ingest_vars
        /\ UNCHANGED last_reconcile
        /\ UNCHANGED conc_vars
        /\ UNCHANGED svc_vars

SyncClosedPnl ==
    \E start_time \in Times, end_time \in Times, fetch_ok \in BOOLEAN,
       failing \in SUBSET (1..MaxBatch) :
        /\ start_time < end_time
        /\ sync_time_range_closed_pnl(start_time, end_time, fetch_ok, failing)

SyncExecutions ==
    \E start_time \in Times, end_time \in Times, fetch_ok \in BOOLEAN,
       failing \in SUBSET (1..MaxBatch) :
        /\ start_time < end_time
        /\ sync_time_range_executions(start_time, end_time, fetch_ok, failing)

NextSync == RecordLiveTrade \/ SyncClosedPnl \/ SyncExecutions

\* A trade of the bot is in trading.completed_trades with source
\* 'websocket', the value the CASE of the sync upsert tests for, before a
\* sync run finds the same trade in the closed-P&L history.
StreamRowPresent ==
    \E start_time \in Times, end_time \in Times, i \in 1..MaxBatch :
        LET trades == ClosedPnlTrades(bot_id, start_time, end_time).trades
        IN  /\ start_time < end_time
            /\ i <= Len(trades)
            /\ trades[i].trade_id \notin DOMAIN completed_trades
            /\ completed_trades' =
                  Put(completed_trades, trades[i].trade_id,
                      [trades[i] EXCEPT !.source = "websocket"])
            /\ UNCHANGED lot_vars
            /\ UNCHANGED sync_vars
            /\ UNCHANGED ingest_vars
            /\ UNCHANGED last_reconcile
            /\ UNCHANGED conc_vars
            /\ UNCHANGED svc_vars

NextProvenance == StreamRowPresent \/ SyncClosedPnl \/ SyncExecutions

SpecProvenance == Init /\ [][NextProvenance]_vars

SpecSync == Init /\ [][NextSync]_vars

(***************************************************************************)
(* The trade matcher on any list of at most MaxExecs executions of the     *)
(* bot, in any order of arrival.                                           *)
(***************************************************************************)
MatchExecution(i, symbol, side, time) ==
    [symbol |-> symbol, orderId |-> "x" \o ToString(i), side |-> side,
     execTime |-> time, execPrice |-> 100 + i, execQty |-> 10, execFee |-> 1,
     orderLinkId |-> <<bot_id, IF side = "Buy" THEN "entry" ELSE "exit", "0">>]

\* What one execution of the list may be: a buy or a sell of BTCUSDT at any
\* time, a buy of ETHUSDT at time 0 or a sell of ETHUSDT one tick later.
MatchChoices ==
    {<<"BTCUSDT", side, time>> : side \in Sides, time \in Times}
    \cup {<<"ETHUSDT", "Buy", 0>>, <<"ETHUSDT", "Sell", TickMs>>}

\* The list of n executions chosen by c.
MatchInput(n, c) ==
    [i \in 1..n |-> MatchExecution(i, c[i][1], c[i][2], c[i][3])]

InitMatch ==
    /\ InitStores
    /\ \E n \in 0..MaxExecs :
          \E c \in [1..n -> MatchChoices] : match_in = MatchInput(n, c)

MatchAll ==
    /\ ~match_out.done
    /\ match_out' = [done |-> TRUE, trades |-> match_all_symbols(match_in)]
    /\ UNCHANGED <<match_in, completed_trades, last_reconcile, pager,
                   backfill, call, service, ws, consumer>>
    /\ UNCHANGED lot_vars
    /\ UNCHANGED sync_vars
    /\ UNCHANGED ingest_vars
    /\ UNCHANGED conc_vars

NextMatch == MatchAll

(***************************************************************************)
(* sync_time_range_executions of one bot on a window of the exchange that  *)
(* holds executions of several bots, untagged ones and ones whose tag has  *)
(* no colon.                                                               *)
(***************************************************************************)
WindowTags ==
    {<<bot_id, "entry", "0">>, <<"lxalgo_001", "entry", "0">>, <<"">>,
     <<bot_id>>}

\* The i-th execution of the window: buys one tick apart, every sell later
\* than every buy.
WindowExecution(i, side, tag) ==
    [symbol |-> "BTCUSDT", orderId |-> "x" \o ToString(i), side |-> side,
     execTime |-> IF side = "Buy" THEN (i - 1) * TickMs
                  ELSE (MaxExecs + i) * TickMs,
     execPrice |-> 100 + i, execQty |-> 10, execFee |-> 1,
     orderLinkId |-> tag]

InitWindow ==
    /\ InitStores
    /\ \E n \in 0..MaxExecs :
          \E c \in [1..n -> Sides \X WindowTags] :
              match_in = [i \in 1..n |-> WindowExecution(i, c[i][1], c[i][2])]

\* The call for bot with match_in as the answer of the exchange: the filter
\* by tag, the matcher, the validation and the bulk insert.
sync_window_executions(bot) ==
    LET end_time == 2 * MaxExecs * TickMs
        bot_executions ==
            SelectSeq(match_in,
                      LAMBDA e : TagStartsWithBot(e.orderLinkId, bot))
        matched_trades == match_all_symbols(bot_executions)
        valid_trades == SelectSeq(matched_trades, validate_trade)
        res == sync_call(sync_status, completed_trades,
                         StatusKey(bot, "hourly", 0, end_time),
                         valid_trades, Len(matched_trades), "ok", {},
                         last_sync.n + 1)
    IN  /\ ~match_out.done
        /\ match_out' = [done |-> TRUE, trades |-> valid_trades]
        /\ call' = [NoCall EXCEPT !.kind = "executions", !.bot = bot,
                                  !.sync_type = "hourly",
                                  !.end_time = end_time]
        /\ sync_status' = res.ss
        /\ completed_trades' = res.ct
        /\ last_sync' = [NoSync EXCEPT
                           !.n = last_sync.n + 1, !.kind = "executions",
                           !.end_time = end_time, !.matched = res.matched,
                           !.inserted = res.inserted,
                           !.handed = res.handed, !.skipped = res.skipped]
        /\ UNCHANGED <<match_in, synced, last_reconcile, pager, backfill,
                       service, ws, consumer>>
        /\ UNCHANGED lot_vars
        /\ UNCHANGED ingest_vars
        /\ UNCHANGED conc_vars

SyncWindow == \E bot \in {bot_id, "lxalgo_001"} : sync_window_executions(bot)

NextWindow == SyncWindow

SpecWindow == InitWindow /\ [][NextWindow]_vars

(***************************************************************************)
(* A paginated fetch against an exchange that answers each request with    *)
(* any page.                                                               *)
(***************************************************************************)
PagerUnchanged ==
    /\ UNCHANGED <<match_in, match_out, completed_trades, last_reconcile,
                   backfill, call, service, ws, consumer>>
    /\ UNCHANGED lot_vars
    /\ UNCHANGED sync_vars
    /\ UNCHANGED ingest_vars
    /\ UNCHANGED conc_vars

StartFetch ==
    /\ \E kind \in {"closed_pnl", "executions"} : start_fetch(kind)
    /\ PagerUnchanged

FetchPage ==
    /\ \E page \in PageChoices, latency \in Latencies :
          fetch_page(page, latency)
    /\ PagerUnchanged

FetchRaises ==
    /\ \E latency \in Latencies : fetch_raises(latency)
    /\ PagerUnchanged

(***************************************************************************)
(* A backfill of the bot over no month or one month.                       *)
(***************************************************************************)
BackfillUnchanged ==
    /\ UNCHANGED <<match_in, match_out, pager, last_sync, synced,
                   last_reconcile, call, service, ws, consumer>>
    /\ UNCHANGED lot_vars
    /\ UNCHANGED ingest_vars
    /\ UNCHANGED conc_vars

StartBackfill ==
    /\ \E months \in {0, 1} : start_backfill(months, DaysPerMonth)
    /\ BackfillUnchanged

BackfillBatch ==
    /\ \E outcome \in BatchOutcomes, failing \in {{}, {1}} :
          backfill_batch(outcome, failing)
    /\ BackfillUnchanged

BackfillReturn == backfill_return /\ BackfillUnchanged

NextBackfill == StartBackfill \/ BackfillBatch \/ BackfillReturn

SpecBackfill == Init /\ [][NextBackfill]_vars

NextPager == StartFetch \/ FetchPage \/ FetchRaises

\* The event loop runs the fetch as long as it has a step to take.
SpecPager == Init /\ [][NextPager]_vars /\ WF_vars(NextPager)

SpecMatch == InitMatch /\ [][NextMatch]_vars

(***************************************************************************)
(* Calls of the two sync methods of the bot over windows of the history,   *)
(* one at a time.                                                          *)
(***************************************************************************)
CallUnchanged ==
    /\ UNCHANGED <<match_in, match_out, pager, backfill, last_reconcile,
                   service, ws, consumer>>
    /\ UNCHANGED lot_vars
    /\ UNCHANGED ingest_vars
    /\ UNCHANGED conc_vars

BeginSync ==
    /\ last_sync.n < MaxSyncs
    /\ \E start_time \in Times, end_time \in Times :
          /\ start_time < end_time
          /\ \/ begin_sync("closed_pnl", bot_id, "backfill", start_time,
                           end_time)
             \/ begin_sync("executions", bot_id, "hourly", start_time,
                           end_time)
    /\ CallUnchanged

BeginSyncRaises ==
    /\ last_sync.n < MaxSyncs
    /\ \E kind \in {"closed_pnl", "executions"}, start_time \in Times,
          end_time \in Times :
          /\ start_time < end_time
          /\ begin_sync_raises(kind, start_time, end_time)
    /\ CallUnchanged

EndSync ==
    /\ \E outcome \in SyncOutcomes, failing \in {{}, {1}} :
          end_sync(outcome, failing)
    /\ CallUnchanged

NextCall == BeginSync \/ BeginSyncRaises \/ EndSync

SpecCall == Init /\ [][NextCall]_vars

(***************************************************************************)
(* The continuous sync service of the registered bots and the shutdown     *)
(* signal.                                                                 *)
(***************************************************************************)
ServiceUnchanged ==
    /\ UNCHANGED <<match_in, match_out, pager, backfill, last_reconcile,
                   ws, consumer>>
    /\ UNCHANGED lot_vars
    /\ UNCHANGED ingest_vars
    /\ UNCHANGED conc_vars

RunContinuousSync == run_continuous_sync /\ ServiceUnchanged

LoopCheck == loop_check /\ ServiceUnchanged

HourlySyncBegin == hourly_sync_begin /\ ServiceUnchanged

HourlySyncEnd ==
    /\ \E outcome \in ServiceOutcomes, failing \in {{}, {1}} :
          hourly_sync_end(outcome, failing)
    /\ ServiceUnchanged

SleepOver == sleep_over /\ ServiceUnchanged

Signal == signal_handler /\ ServiceUnchanged

\* The steps of the service itself.
ServiceStep ==
    RunContinuousSync \/ LoopCheck \/ HourlySyncBegin \/ HourlySyncEnd
    \/ SleepOver

NextService == ServiceStep \/ Signal

\* The event loop runs the coroutine whenever it can go on; the exchange
\* answers and the sleep ends.
SpecService == Init /\ [][NextService]_vars /\ WF_vars(ServiceStep)

(***************************************************************************)
(* The stream client against an exchange that may refuse or drop           *)
(* connections.                                                            *)
(***************************************************************************)
StreamUnchanged ==
    /\ UNCHANGED <<match_in, match_out, pager, backfill, last_reconcile,
                   completed_trades, call, service, consumer>>
    /\ UNCHANGED lot_vars
    /\ UNCHANGED sync_vars
    /\ UNCHANGED ingest_vars
    /\ UNCHANGED conc_vars

Connect == connect /\ StreamUnchanged

ConnectLoop == connect_loop /\ StreamUnchanged

ConnectionOpened == connection_opened /\ StreamUnchanged

ConnectionRefused == connection_refused /\ StreamUnchanged

HandleAuth ==
    /\ \E success \in BOOLEAN : handle_auth(success)
    /\ StreamUnchanged

HandleSubscribeAck == handle_subscribe_ack /\ StreamUnchanged

ConnectionClosed ==
    /\ \E clean \in BOOLEAN : connection_closed(clean)
    /\ StreamUnchanged

RetrySleepOver == retry_sleep_over /\ StreamUnchanged

Stop == stop /\ StreamUnchanged

HeartbeatEnds == heartbeat_ends /\ StreamUnchanged

\* The steps the client takes by itself.
ClientStep == Connect \/ ConnectLoop \/ RetrySleepOver

NextStream ==
    ClientStep \/ ConnectionOpened \/ ConnectionRefused \/ HandleAuth
    \/ HandleSubscribeAck \/ ConnectionClosed \/ Stop \/ HeartbeatEnds

\* The event loop runs the client; an exchange that is reachable accepts
\* one of the repeated attempts, answers the auth request, and closes a
\* connection that the client closes.
SpecStream ==
    /\ Init
    /\ [][NextStream]_vars
    /\ WF_vars(ClientStep)
    /\ SF_vars(ConnectionOpened)
    /\ WF_vars(HandleAuth)
    /\ WF_vars(ws.closing /\ ConnectionClosed)

(***************************************************************************)
(* The message loop against an exchange that delivers execution messages   *)
(* while earlier ones are being handled.                                   *)
(***************************************************************************)
ConsumerUnchanged ==
    /\ UNCHANGED <<match_in, match_out, pager, backfill, last_reconcile,
                   completed_trades, call, service, ws, stream, positions,
                   redis>>
    /\ UNCHANGED lot_vars
    /\ UNCHANGED sync_vars
    /\ UNCHANGED conc_vars

Deliver ==
    /\ \E data_list \in ExecutionMessages : deliver(data_list)
    /\ ConsumerUnchanged

NextMessage == next_message /\ ConsumerUnchanged

HandlerBegins == handler_begins /\ ConsumerUnchanged

HandlerEnds ==
    /\ \E ev \in consumer.in_handler, outcome \in StoreOutcomes :
          handler_ends(ev, outcome)
    /\ ConsumerUnchanged

MessageDone == message_done /\ ConsumerUnchanged

NextConsumer ==
    Deliver \/ NextMessage \/ HandlerBegins \/ HandlerEnds \/ MessageDone

SpecConsumer == Init /\ [][NextConsumer]_vars

(***************************************************************************)
(* Properties of the lot matcher.                                          *)
(***************************************************************************)
\* The step is a call of close_position_fifo.
CloseStep == last_close'.n = last_close.n + 1

\* Keys of the lots of a symbol that a close would select.
OpenLotKeys(pe, symbol) ==
    {k \in DOMAIN pe : /\ pe[k].symbol = symbol
                       /\ pe[k].status /= "closed"
                       /\ pe[k].remaining_qty > 0}

RECURSIVE SumRemaining(_, _)
SumRemaining(pe, keys) ==
    IF keys = {} THEN 0
    ELSE LET k == CHOOSE x \in keys : TRUE
         IN  pe[k].remaining_qty + SumRemaining(pe, keys \ {k})

TotalOpen(pe, symbol) == SumRemaining(pe, OpenLotKeys(pe, symbol))

RECURSIVE SumQuantity(_)
SumQuantity(out) ==
    IF out = <<>> THEN 0 ELSE Head(out).quantity + SumQuantity(Tail(out))

NetPnls(out) == [i \in 1..Len(out) |-> out[i].net_pnl]

\* C1: a close takes quantity from a lot only if every open lot of the same
\* symbol with an earlier entry_time is left with remaining quantity 0, and
\* a close of less than the oldest lot's remaining quantity changes that lot
\* only.
C1_FifoOrder ==
    [][ /\ \A k \in DOMAIN position_entries :
             position_entries'[k].remaining_qty
                 < position_entries[k].remaining_qty
             => \A j \in OpenLotKeys(position_entries,
                                     position_entries[k].symbol) :
                  position_entries[j].entry_time
                      < position_entries[k].entry_time
                  => position_entries'[j].remaining_qty = 0
        /\ CloseStep =>
             \A o \in OpenLotKeys(position_entries, last_close'.symbol) :
                ( /\ \A j \in OpenLotKeys(position_entries,
                                          last_close'.symbol) :
                        position_entries[o].entry_time
                            <= position_entries[j].entry_time
                  /\ last_close'.close_qty
                        < position_entries[o].remaining_qty )
                => /\ position_entries'[o].remaining_qty =
                        position_entries[o].remaining_qty
                            - last_close'.close_qty
                   /\ \A j \in DOMAIN position_entries \ {o} :
                        position_entries'[j] = position_entries[j]
      ]_vars

\* A close smaller than the oldest lot left the two younger lots of the
\* symbol untouched.
C1_Witness ==
    /\ last_close.n > 0
    /\ Len(last_close.out) = 1
    /\ \E a, b, c \in DOMAIN position_entries :
         /\ position_entries[a].symbol = last_close.symbol
         /\ position_entries[b].symbol = last_close.symbol
         /\ position_entries[c].symbol = last_close.symbol
         /\ position_entries[a].entry_time < position_entries[b].entry_time
         /\ position_entries[b].entry_time < position_entries[c].entry_time
         /\ last_close.out[1].entry_id = a
         /\ position_entries[a].status = "partially_closed"
         /\ position_entries[b].status = "open"
         /\ position_entries[c].status = "open"

\* Quantity still to close when slice i of a close is taken.
RemainingToCloseAt(close, i) ==
    close.close_qty - SumQuantity(SubSeq(close.out, 1, i - 1))

\* C2: for each lot consumed, qty_closed = min(lot.remaining_qty,
\* remaining_to_close), the lot's remaining quantity decreases by exactly
\* qty_closed, and its status becomes partially_closed if the new remaining
\* quantity is > 0 and closed otherwise.
C2_SliceQuantity ==
    [][ CloseStep =>
          \A i \in 1..Len(last_close'.out) :
            LET slice == last_close'.out[i]
                lot == position_entries[slice.entry_id]
                lot2 == position_entries'[slice.entry_id]
                rtc == RemainingToCloseAt(last_close', i)
            IN  /\ slice.quantity =
                     (IF lot.remaining_qty <= rtc
                      THEN lot.remaining_qty ELSE rtc)
                /\ lot2.remaining_qty = lot.remaining_qty - slice.quantity
                /\ lot2.status = (IF lot2.remaining_qty > 0
                                  THEN "partially_closed" ELSE "closed")
      ]_vars

\* Lots 10 @ 100 and 5 @ 110, close of 12: the first lot is closed, the
\* second is left with 3, partially_closed.
C2_Witness ==
    /\ last_close.n > 0
    /\ last_close.close_qty = 12
    /\ Len(last_close.out) = 2
    /\ LET a == position_entries[last_close.out[1].entry_id]
           b == position_entries[last_close.out[2].entry_id]
       IN  /\ a.original_qty = 10 /\ a.entry_price = 100
           /\ a.remaining_qty = 0 /\ a.status = "closed"
           /\ b.original_qty = 5 /\ b.entry_price = 110
           /\ b.remaining_qty = 3 /\ b.status = "partially_closed"

\* C3: a close that consumes k lots leaves exactly k CompletedTrade rows for
\* that close in the ledger, one per slice.
C3_OneRowPerSlice ==
    LET ids == {last_close.out[i].trade_id : i \in 1..Len(last_close.out)}
    IN  /\ ids \subseteq DOMAIN completed_trades
        /\ Cardinality(ids) = Len(last_close.out)

\* C4: a close of more than the total open quantity of the symbol closes
\* every open lot of the symbol to remaining 0, takes exactly the open
\* quantity (the excess is dropped), and no lot ever has a remaining quantity
\* below 0.
C4_OverflowClose ==
    [][ /\ \A k \in DOMAIN position_entries' :
             position_entries'[k].remaining_qty >= 0
        /\ ( /\ CloseStep
             /\ last_close'.close_qty
                    > TotalOpen(position_entries, last_close'.symbol) )
           => /\ \A k \in DOMAIN position_entries :
                   position_entries[k].symbol = last_close'.symbol
                   => /\ position_entries'[k].remaining_qty = 0
                      /\ position_entries'[k].status = "closed"
              /\ SumQuantity(last_close'.out)
                    = TotalOpen(position_entries, last_close'.symbol)
              /\ Len(last_close'.out)
                    = Cardinality(OpenLotKeys(position_entries,
                                              last_close'.symbol))
      ]_vars

\* A close of 31 met three open lots holding 20 in total and closed them all.
C4_Witness ==
    /\ last_close.n > 0
    /\ last_close.close_qty = 31
    /\ Len(last_close.out) = 3
    /\ SumQuantity(last_close.out) = 20
    /\ \A k \in DOMAIN position_entries :
         position_entries[k].symbol = last_close.symbol
         => position_entries[k].remaining_qty = 0

\* C5: the gross P&L of a slice is (exit_price - entry_price) * qty_closed
\* for a lot opened long and (entry_price - exit_price) * qty_closed for a
\* lot opened short.
C5_GrossPnlBySide ==
    \A i \in 1..Len(last_close.out) :
        LET slice == last_close.out[i]
            lot == position_entries[slice.entry_id]
            row == completed_trades[slice.trade_id]
            expected ==
                IF lot.opened_side = "Buy"
                THEN (slice.exit_price - lot.entry_price) * slice.quantity
                ELSE (lot.entry_price - slice.exit_price) * slice.quantity
        IN  slice.gross_pnl = expected

\* C6: when the closing quantity Q does not exceed the open quantity, the
\* net P&L of the slices sums to the sum over the consumed lots of
\* (P - entry_i) * q_i minus the apportioned entry commissions minus the
\* whole exit commission, and closing Q in two successive calls at the same
\* price with the exit commission split pro rata gives the same total.
ReferenceNet(pe, close) ==
    RSub(RSum([i \in 1..Len(close.out) |->
              LET slice == close.out[i]
                  lot == pe[slice.entry_id]
              IN  RSub(RInt((close.exit_price - lot.entry_price)
                            * slice.quantity),
                       RMul(lot.entry_commission,
                            Rat(slice.quantity, lot.original_qty)))]),
         close.exit_commission)

TwoCallNet(pe, ct, close, q1) ==
    LET c1 == RMul(close.exit_commission, Rat(q1, close.close_qty))
        c2 == RMul(close.exit_commission,
                   Rat(close.close_qty - q1, close.close_qty))
        first == CloseFifo(pe, ct, close.symbol, close.exit_price, q1,
                           close.exit_time, "take_profit", c1)
        second == CloseFifo(first.pe, first.ct, close.symbol,
                            close.exit_price, close.close_qty - q1,
                            close.exit_time, "take_profit", c2)
    IN  RAdd(RSum(NetPnls(first.out)), RSum(NetPnls(second.out)))

C6_Additivity ==
    [][ ( /\ CloseStep
          /\ last_close'.close_qty
                <= TotalOpen(position_entries, last_close'.symbol) )
        => /\ RSum(NetPnls(last_close'.out))
                = ReferenceNet(position_entries, last_close')
           /\ \A q1 \in 1..(last_close'.close_qty - 1) :
                TwoCallNet(position_entries, completed_trades,
                           last_close', q1)
                    = RSum(NetPnls(last_close'.out))
      ]_vars

\* A close of 12 spanned two lots, with commission shares that are not whole
\* numbers.
C6_Witness ==
    /\ last_close.n > 0
    /\ last_close.close_qty = 12
    /\ Len(last_close.out) = 2
    /\ SumQuantity(last_close.out) = 12
    /\ last_close.out[2].net_pnl[2] > 1

\* C17: with two closes of the same (bot, symbol) running at once, the
\* quantity closed out of a lot never exceeds the lot's original quantity
\* and what has been closed plus what remains is the original quantity.
C17_ClosesSerialized ==
    \A k \in DOMAIN position_entries :
        /\ ClosedOf(k) <= position_entries[k].original_qty
        /\ ClosedOf(k) + position_entries[k].remaining_qty
              = position_entries[k].original_qty

\* The step is a call of close_position_fifo that raised.
FailStep == last_failure'.n = last_failure.n + 1

\* The lot was reduced and a row under the trade key of its slice holds the
\* exit of the failed call.
SliceDurable(lot, f) ==
    LET trade_id == LiveTradeId(f.symbol, lot.entry_time, f.exit_time)
    IN  /\ position_entries'[lot.entry_id].remaining_qty < lot.remaining_qty
        /\ trade_id \in DOMAIN completed_trades'
        /\ completed_trades'[trade_id].exit_time = f.exit_time
        /\ completed_trades'[trade_id].exit_price = f.exit_price

HandleExecution ==
    \E data_list \in ExecutionMessages :
        \E outcomes \in [1..Len(data_list) -> StoreOutcomes] :
            handle_message("execution", data_list, outcomes)

NextIngest == HandleExecution

HandlePosition ==
    \E data_list \in PositionMessages :
        \E outcomes \in [1..Len(data_list) -> PositionOutcomes] :
            handle_message("position", data_list, outcomes)

NextPosition == HandlePosition

SpecIngest == Init /\ [][NextIngest]_vars

SpecPosition == Init /\ [][NextPosition]_vars

(***************************************************************************)
(* Properties of the completed-trade ledger.                               *)
(***************************************************************************)
SameLogicalTrade(r1, r2) ==
    /\ r1.bot_id = r2.bot_id
    /\ r1.symbol = r2.symbol
    /\ r1.entry_time = r2.entry_time
    /\ r1.exit_time = r2.exit_time

\* C7: a trade with the same bot, symbol, entry time and exit time recorded
\* through different ingestion paths gets the same trade key, so the ledger
\* holds one row for it.
C7_OneKeyPerLogicalTrade ==
    \A k1, k2 \in DOMAIN completed_trades :
        SameLogicalTrade(completed_trades[k1], completed_trades[k2])
        => k1 = k2

SyncStep == last_sync'.n = last_sync.n + 1

\* C8: a sync run over a window that an earlier run of the same kind has
\* already synced creates no CompletedTrade row and reports 0 inserted.
C8_ResyncInsertsNothing ==
    [][ (SyncStep /\ last_sync'.rerun)
        => /\ last_sync'.inserted = 0
           /\ DOMAIN completed_trades' = DOMAIN completed_trades
      ]_vars

\* The same window has been synced again, its trades were matched and none
\* was inserted; the run was at least the third one.
C8_Witness ==
    /\ last_sync.rerun
    /\ ~last_sync.raised
    /\ last_sync.matched > 0
    /\ last_sync.inserted = 0
    /\ last_sync.n >= 3

FinancialFields(row) ==
    <<row.entry_price, row.entry_qty, row.entry_commission,
      row.exit_price, row.exit_qty, row.exit_commission,
      row.gross_pnl, row.net_pnl, row.pnl_pct, row.total_commission>>

\* C9: once a row exists, an upsert with the same trade key leaves its
\* prices, quantities and P&L fields unchanged.
C9_FinancialFieldsKept ==
    [][ \A k \in DOMAIN completed_trades :
            FinancialFields(completed_trades'[k])
                = FinancialFields(completed_trades[k])
      ]_vars

(***************************************************************************)
(* Properties of the execution ingester.                                   *)
(***************************************************************************)
\* The positions of the stream whose event was handed to handle_execution
\* with the given store outcomes.
Handled(outcomes) ==
    {i \in 1..Len(stream) :
        /\ stream[i].topic = "execution"
        /\ stream[i].handed
        /\ stream[i].outcome \in outcomes}

DeliveredExecutions ==
    {<<stream[i].data.orderId, stream[i].data.execId>> :
        i \in Handled({"ok"})}

\* C10: an execution event delivered more than once (same order id, same
\* execution id) leaves exactly one Fill in the ledger.
C10_OneFillPerExecution ==
    Len(fills) = Cardinality(DeliveredExecutions)

\* The reason labels the bots put in the tag of an order that opens a
\* position; every other label of a parsed tag closes one.
OpeningReasons == {"entry"}

\* C11: every Fill whose tag reason is an opening action has a Lot for its
\* (bot, symbol), and every Fill of a known bot whose tag reason is a
\* closing action has a CompletedTrade produced by the FIFO match.
C11_FillsDriveLots ==
    \A i \in 1..Len(fills) :
        /\ fills[i].close_reason \in OpeningReasons
             => \E k \in DOMAIN position_entries :
                    position_entries[k].symbol = fills[i].symbol
        /\ (fills[i].bot_id /= "unknown"
               /\ fills[i].close_reason \notin OpeningReasons)
             => \E k \in DOMAIN completed_trades :
                    completed_trades[k].symbol = fills[i].symbol

Unparseable(tag) == Len(tag) < 2

FillsOfUnknown == {i \in 1..Len(fills) : fills[i].bot_id = "unknown"}

\* C12: every execution event with an empty, absent or colon-free tag whose
\* INSERT the store accepts leaves exactly one Fill, and that Fill is
\* attributed to bot 'unknown'.
C12_UnparseableTagKept ==
    /\ Cardinality(FillsOfUnknown)
         = Cardinality({i \in Handled({"ok"}) :
                           Unparseable(GetOrderLinkId(stream[i].data))})
    /\ \A i \in 1..Len(fills) :
           Unparseable(fills[i].client_order_id)
               => fills[i].bot_id = "unknown"

\* Events with an empty tag, without a tag and with a colon-free tag have
\* all been written.
C12_Witness ==
    /\ \E i \in FillsOfUnknown : fills[i].order_id = "o4"
    /\ \E i \in FillsOfUnknown : fills[i].order_id = "o5"
    /\ \E i \in FillsOfUnknown :
           /\ fills[i].order_id = "o6"
           /\ fills[i].close_reason = "manual_close"

\* C13: an event whose write fails with a transient store error is written
\* by a retry, so the ledger holds a Fill for every event whose write
\* succeeds at once or would succeed when retried.
C13_TransientErrorRetried ==
    Len(fills) = Cardinality(Handled({"ok", "transient_error"}))

\* C14: every event of every data message is handed to its handler, whatever
\* happened to the events before it.
C14_LaterEventsHanded ==
    \A i \in 1..Len(stream) : stream[i].handed

(***************************************************************************)
(* Properties of the position cache.                                       *)
(***************************************************************************)
\* C15: after a position event for a symbol has been handled without a
\* failure, get_position_redis of every active bot returns for that symbol
\* the size and the side the event reported.
C15_CacheReadSeesPositionEvent ==
    [][ \A data \in PositionEvents :
            stream' = Append(stream, StreamEntry("position", data, 0, TRUE))
            => \A k \in 1..Len(ActiveBots) :
                   LET got == get_position_redis(redis', ActiveBots[k],
                                                 data.symbol)
                   IN  /\ got.found
                       /\ got.size = data.size
                       /\ got.side = data.side
      ]_vars

\* C16: every cache entry the listener has written holds the size and side
\* of a committed row of trading.positions for the same bot and symbol.
C16_CacheBehindLedger ==
    \A k \in 1..Len(ActiveBots), symbol \in Symbols :
        LET key == ListenerRedisKey(ActiveBots[k], symbol)
            row == <<ActiveBots[k], symbol>>
        IN  key \in DOMAIN redis
            => /\ row \in DOMAIN positions
               /\ positions[row].size = redis[key].value.size
               /\ positions[row].side = redis[key].value.side

(***************************************************************************)
(* Properties of the startup reconciliation.                               *)
(***************************************************************************)
\* The step is the run of reconcile_positions_on_startup.
ReconcileStep == ~last_reconcile.done /\ last_reconcile'.done

Branches == {"EXCHANGE_OPEN", "EXCHANGE_CLOSED_RECOVERED",
             "EXCHANGE_CLOSED_UNRECOVERABLE", "EXCHANGE_UNREACHABLE"}

\* C19: reconciliation takes every symbol that had open lots when it
\* started through one of the four branches and leaves it reconciled: no
\* open lot after a closed branch, a cache entry after the open and the
\* unreachable branch, whichever ledger read, exchange call or per-symbol
\* step failed.
C19_EverySymbolReconciled ==
    [][ ReconcileStep =>
          \A symbol \in Symbols :
            OpenLotKeys(position_entries, symbol) /= {}
            => /\ symbol \in DOMAIN last_reconcile'.branch
               /\ last_reconcile'.branch[symbol] \in Branches
               /\ last_reconcile'.branch[symbol]
                     \in {"EXCHANGE_CLOSED_RECOVERED",
                          "EXCHANGE_CLOSED_UNRECOVERABLE"}
                  => OpenLotKeys(position_entries', symbol) = {}
               /\ last_reconcile'.branch[symbol]
                     \in {"EXCHANGE_OPEN", "EXCHANGE_UNREACHABLE"}
                  => get_position_redis(redis', bot_id, symbol).found
      ]_vars

RECURSIVE SumCost(_, _)
SumCost(pe, keys) ==
    IF keys = {} THEN 0
    ELSE LET k == CHOOSE x \in keys : TRUE
         IN  pe[k].entry_price * pe[k].remaining_qty
             + SumCost(pe, keys \ {k})

\* C20: for a symbol with open lots that the exchange reports as an open
\* position, reconciliation leaves a cache entry with the exchange's size
\* and side and the average price sum(entry_price_i * remaining_i) /
\* sum(remaining_i) over the open lots, and changes no lot of the symbol.
C20_ExchangeOpenRestore ==
    [][ ReconcileStep =>
          \A symbol \in DOMAIN last_reconcile'.exchange :
            OpenLotKeys(position_entries, symbol) /= {}
            => LET keys == OpenLotKeys(position_entries, symbol)
                   got == get_position_redis(redis', bot_id, symbol)
                   pos == last_reconcile'.exchange[symbol]
               IN  /\ got.found
                   /\ got.size = pos.size
                   /\ got.side = pos.side
                   /\ got.avg_price =
                         RDiv(RInt(SumCost(position_entries, keys)),
                              RInt(SumRemaining(position_entries, keys)))
                   /\ \A k \in DOMAIN position_entries :
                         position_entries[k].symbol = symbol
                         => position_entries'[k] = position_entries[k]
      ]_vars

\* BTCUSDT was restored from an exchange position of 12 over two open lots
\* with different prices, one of them partially closed, at an average price
\* that is not a whole number.
C20_Witness ==
    /\ last_reconcile.done
    /\ "BTCUSDT" \in DOMAIN last_reconcile.exchange
    /\ \E a, b \in OpenLotKeys(position_entries, "BTCUSDT") :
          /\ position_entries[a].entry_price
                /= position_entries[b].entry_price
          /\ position_entries[a].status = "partially_closed"
    /\ LET got == get_position_redis(redis, bot_id, "BTCUSDT")
       IN  /\ got.found
           /\ got.size = 12
           /\ got.side = "Buy"
           /\ got.avg_price[2] > 1

\* The run of reconcile_positions_on_startup in which the ledger read and
\* the exchange call succeed and the closed-P&L history answers as `kind`.
ReconcileStepOf(kind) ==
    /\ ReconcileStep
    /\ last_reconcile'.ledger_ok
    /\ last_reconcile'.exchange_ok
    /\ last_reconcile'.outcome.kind = kind

\* The symbols with open lots that the exchange does not report as open.
ClosedOnExchange ==
    {symbol \in Symbols :
        /\ OpenLotKeys(position_entries, symbol) /= {}
        /\ symbol \notin DOMAIN last_reconcile'.live}

\* C21: when the exchange reports no open position for a symbol with open
\* lots and the closed-P&L history has a record of the symbol, reconciliation
\* leaves every such lot with remaining 0 and status closed and the ledger
\* holds, for each lot, a CompletedTrade of its own with the lot's entry, the
\* lot's remaining quantity and the record's exit price and exit time.
C21_BackfillClosesThroughFifo ==
    [][ ReconcileStepOf("found") =>
          \A symbol \in ClosedOnExchange :
            LET close == FindClose(ClosedPnlHistory, symbol)
                keys == OpenLotKeys(position_entries, symbol)
            IN  close.found =>
                /\ \A k \in keys :
                      /\ position_entries'[k].remaining_qty = 0
                      /\ position_entries'[k].status = "closed"
                /\ \E row \in [keys -> DOMAIN completed_trades'] :
                      /\ \A a, b \in keys : row[a] = row[b] => a = b
                      /\ \A k \in keys :
                            LET t == completed_trades'[row[k]]
                            IN  /\ t.symbol = symbol
                                /\ t.entry_time = position_entries[k].entry_time
                                /\ t.entry_price
                                      = position_entries[k].entry_price
                                /\ t.exit_qty
                                      = position_entries[k].remaining_qty
                                /\ t.exit_price = close.record.avgExitPrice
                                /\ t.exit_time = close.record.updatedTime
      ]_vars

\* Exit reasons of closes whose exit is known.
KnownExitReasons == ExitReasons \cup {"backfilled_close"}

\* C22: when the exchange reports no open position for a symbol with open
\* lots and the closed-P&L history has no record of the symbol,
\* reconciliation closes every such lot and the ledger gets, for each lot, a
\* new CompletedTrade with zero P&L whose exit reason is none of the reasons
\* of a normal close.
C22_UnrecoverableMarked ==
    [][ ReconcileStepOf("not_found") =>
          \A symbol \in ClosedOnExchange :
            \A k \in OpenLotKeys(position_entries, symbol) :
              /\ position_entries'[k].remaining_qty = 0
              /\ position_entries'[k].status = "closed"
              /\ \E id \in DOMAIN completed_trades' \ DOMAIN completed_trades :
                    LET t == completed_trades'[id]
                    IN  /\ t.symbol = symbol
                        /\ t.entry_time = position_entries[k].entry_time
                        /\ t.net_pnl = RInt(0)
                        /\ t.exit_reason \notin KnownExitReasons
      ]_vars

\* C23: when the exchange call fails, reconciliation returns, writes for
\* every symbol with open lots a cache entry whose size is the total
\* remaining quantity of the lots and whose price is their weighted average
\* entry price, and changes no lot.
C23_DegradedRestore ==
    [][ ( /\ ReconcileStep
          /\ last_reconcile'.ledger_ok
          /\ ~last_reconcile'.exchange_ok )
        => /\ position_entries' = position_entries
           /\ \A symbol \in Symbols :
                LET keys == OpenLotKeys(position_entries, symbol)
                    got == get_position_redis(redis', bot_id, symbol)
                IN  keys /= {} =>
                    /\ got.found
                    /\ got.size = SumRemaining(position_entries, keys)
                    /\ got.avg_price =
                          RDiv(RInt(SumCost(position_entries, keys)),
                               RInt(SumRemaining(position_entries, keys)))
      ]_vars

\* C24: after a reconciliation in which the ledger read, the exchange call
\* and every per-symbol step succeed, every cache entry holds the size the
\* exchange reports for its symbol or size 0, and no symbol that is flat on
\* the exchange has an open lot, whatever the cache and the ledger held
\* before.
C24_Convergence ==
    [][ (ReconcileStepOf("found") \/ ReconcileStepOf("not_found")) =>
          \A symbol \in Symbols :
            LET got == get_position_redis(redis', bot_id, symbol)
                live == last_reconcile'.live
            IN  /\ got.found =>
                      \/ got.size = 0
                      \/ /\ symbol \in DOMAIN live
                         /\ got.size = live[symbol].size
                /\ symbol \notin DOMAIN live
                      => OpenLotKeys(position_entries', symbol) = {}
      ]_vars

(***************************************************************************)
(* Properties of the trade matcher.                                        *)
(***************************************************************************)
\* Execution i of the list comes before execution j in execution-time
\* order, equal times in the order of the list.
ExecBefore(execs, i, j) ==
    \/ execs[i].execTime < execs[j].execTime
    \/ execs[i].execTime = execs[j].execTime /\ i <= j

EarliestExec(execs, idx) ==
    CHOOSE i \in idx : \A j \in idx : ExecBefore(execs, i, j)

\* The reference rule on the positions of the sells and buys not yet
\* consumed: the earliest sell takes the earliest buy whose time strictly
\* precedes it, if there is one.
RECURSIVE ReferencePairs(_, _, _)
ReferencePairs(execs, sells, buys) ==
    IF sells = {} THEN {}
    ELSE LET s == EarliestExec(execs, sells)
             before == {b \in buys : execs[b].execTime < execs[s].execTime}
         IN  IF before = {}
             THEN ReferencePairs(execs, sells \ {s}, buys)
             ELSE LET b == EarliestExec(execs, before)
                  IN  {<<execs[b].orderId, execs[s].orderId>>}
                      \cup ReferencePairs(execs, sells \ {s}, buys \ {b})

SidePositions(execs, symbol, side) ==
    {i \in 1..Len(execs) : execs[i].symbol = symbol /\ execs[i].side = side}

MatchedPairs(trades, symbol) ==
    { <<trades[i].entry_order_id, trades[i].exit_order_id>> :
        i \in {j \in 1..Len(trades) : trades[j].symbol = symbol} }

\* C25: for every symbol the pairs match_fifo returns are exactly those of
\* the reference rule (sells in execution-time order, each matched to the
\* earliest unconsumed buy strictly before it); no execution is in two
\* pairs and every pair exits after it enters.
C25_MatchFifoIsReference ==
    match_out.done =>
        LET trades == match_out.trades
        IN  /\ \A symbol \in Symbols :
                 MatchedPairs(trades, symbol)
                    = ReferencePairs(match_in,
                          SidePositions(match_in, symbol, "Sell"),
                          SidePositions(match_in, symbol, "Buy"))
            /\ \A i, j \in 1..Len(trades) :
                 i /= j => /\ trades[i].entry_order_id
                                 /= trades[j].entry_order_id
                           /\ trades[i].exit_order_id
                                 /= trades[j].exit_order_id
            /\ \A i \in 1..Len(trades) :
                 trades[i].exit_time > trades[i].entry_time

\* A pair was matched from a list of both symbols that is not in time order
\* and holds a sell that was passed over.
C25_Witness ==
    /\ match_out.done
    /\ Len(match_out.trades) = 1
    /\ \E i, j \in 1..Len(match_in) : match_in[i].symbol /= match_in[j].symbol
    /\ \E i, j \in 1..Len(match_in) :
          i < j /\ match_in[i].execTime > match_in[j].execTime
    /\ \E s \in 1..Len(match_in) :
          /\ match_in[s].side = "Sell"
          /\ \A t \in 1..Len(match_out.trades) :
                match_out.trades[t].exit_order_id /= match_in[s].orderId

(***************************************************************************)
(* Properties of the paginated fetches.                                    *)
(***************************************************************************)
RECURSIVE ConcatPages(_, _)
\* The records of the first k pages received, in order.
ConcatPages(pages, k) ==
    IF k = 0 THEN <<>>
    ELSE ConcatPages(pages, k - 1) \o PageRecords(k, pages[k].n)

PagerFollowsCursor ==
    /\ \A k \in 1..Len(pager.requests) :
          /\ pager.requests[k].endpoint = Endpoint(pager.kind)
          /\ pager.requests[k].cursor =
                IF k = 1 THEN NoCursor
                ELSE TextCursor(Unquote(pager.pages[k - 1].next.text))
          /\ k > 1 => pager.requests[k].at - pager.requests[k - 1].at
                         >= RateLimitDelayMs
    /\ \A k \in 1..(Len(pager.requests) - 1) : ~LastPage(pager.pages[k])
    /\ pager.pc = "returned"
          => /\ Len(pager.requests) = Len(pager.pages)
             /\ LastPage(pager.pages[Len(pager.pages)])
             /\ pager.all_records
                   = ConcatPages(pager.pages, Len(pager.pages))

\* C26: a paginated fetch asks for the first page without a cursor and for
\* each next page with the cursor of the previous page (URL-decoded, as
\* the request is sent), at least RATE_LIMIT_DELAY after the request before;
\* it asks for no page after a page with no next cursor or an empty list,
\* returns the records of all pages received in order, and a fetch that has
\* started ends once the exchange sends such a page.
C26_PaginationFollowsCursor ==
    /\ []PagerFollowsCursor
    /\ (pager.pc = "loop") ~> (pager.pc \in {"returned", "raised"})

\* A fetch returned the records of three pages, the first cursor with an
\* escape in it, after requests that had to wait for the limiter.
C26_Witness ==
    /\ pager.pc = "returned"
    /\ Len(pager.pages) = 3
    /\ Len(pager.all_records) = 5
    /\ pager.pages[1].next.text /= Unquote(pager.pages[1].next.text)
    /\ pager.requests[2].at - pager.requests[1].at = RateLimitDelayMs

(***************************************************************************)
(* Properties of the backfill.                                             *)
(***************************************************************************)
\* The sub-windows gone through are consecutive from the start of the
\* range, not empty and at most BACKFILL_BATCH_DAYS long, and at the return
\* they end at the end of the range.
WindowsCoverRange ==
    LET w == backfill.windows
    IN  /\ \A k \in 1..Len(w) :
              /\ w[k].start_time =
                    IF k = 1 THEN backfill.start_time ELSE w[k - 1].end_time
              /\ w[k].start_time < w[k].end_time
              /\ w[k].end_time - w[k].start_time <= BackfillBatchDays
              /\ w[k].end_time <= backfill.end_time
        /\ backfill.pc = "returned" /\ backfill.start_time < backfill.end_time
              => /\ w /= <<>>
                 /\ w[Len(w)].end_time = backfill.end_time

\* A CompletedTrade row but for its sync metadata.
TradeContent(row) == [row EXCEPT !.synced_at = 0, !.source = ""]

\* A sub-window fails: its call raised.
BatchFails == backfill'.failed = backfill.failed + 1

FailureIsolated ==
    BatchFails =>
        /\ backfill'.current_start > backfill.current_start
        /\ backfill'.pc = "loop"
        /\ \A key \in DOMAIN sync_status :
              /\ key \in DOMAIN sync_status'
              /\ sync_status'[key] = sync_status[key]
        /\ \A id \in DOMAIN completed_trades :
              /\ id \in DOMAIN completed_trades'
              /\ TradeContent(completed_trades'[id])
                    = TradeContent(completed_trades[id])

\* Every step of the running loop either moves current_start forward,
\* never past the end of the range, or is the return: the distance to the
\* end of the range cannot decrease for ever, so the loop ends.
LoopProgress ==
    backfill.pc = "loop" /\ backfill' /= backfill =>
        \/ /\ backfill'.pc = "loop"
           /\ backfill'.current_start > backfill.current_start
           /\ backfill'.current_start <= backfill.end_time
        \/ /\ backfill'.pc = "returned"
           /\ backfill.current_start >= backfill.end_time

CallBegins == ~call.active /\ call'.active

\* The step is the end of a call, by return or by raise.
CallEnds == call.active /\ ~call'.active

NoneRunning(ss) == \A key \in DOMAIN ss : ss[key].status /= "running"

\* C28: a call of sync_time_range_closed_pnl or sync_time_range_executions
\* marks the SyncStatus record of its window running when it starts; when
\* it returns the record is completed with the inserted count, when it
\* raises the record is failed with an error message, and once the call is
\* over no record is running.
C28_StatusRecordSettled ==
    [][/\ CallBegins =>
            /\ CallKey(call') \in DOMAIN sync_status'
            /\ sync_status'[CallKey(call')].status = "running"
       /\ CallEnds =>
            /\ CallKey(call) \in DOMAIN sync_status'
            /\ LET rec == sync_status'[CallKey(call)]
               IN  IF last_sync'.raised
                   THEN /\ rec.status = "failed"
                        /\ rec.error_message /= None
                   ELSE /\ rec.status = "completed"
                        /\ rec.trades_synced = last_sync'.inserted
            /\ NoneRunning(sync_status')]_vars

(***************************************************************************)
(* Properties of the continuous sync service.                              *)
(***************************************************************************)
\* After the signal no round of hourly_sync_all_bots begins.
NoRoundAfterSignal == service.signalled => service'.rounds = service.rounds

\* A window that ends after the signal leaves its record completed or
\* failed.
WindowSettledAfterSignal ==
    service.signalled /\ CallEnds =>
        /\ CallKey(call) \in DOMAIN sync_status'
        /\ sync_status'[CallKey(call)].status \in {"completed", "failed"}

\* C29: after a shutdown signal during continuous sync the window in
\* flight ends completed or failed, never left running, no new round of
\* syncs begins, and run_continuous_sync eventually returns.
C29_GracefulShutdown ==
    /\ [][NoRoundAfterSignal /\ WindowSettledAfterSignal]_vars
    /\ service.signalled ~> service.pc = "returned"

(***************************************************************************)
(* Properties of the stream client.                                        *)
(***************************************************************************)
\* The running client has lost its n-th connection.
Disconnected(n) ==
    /\ ws.running
    /\ ws.conns = n
    /\ ws.pc \in {"check", "sleeping", "connecting"}

\* The connection after the n-th is open and its auth request is sent.
Reconnected(n) == ws.conns = n + 1 /\ ws.open /\ ws.auth_requests = 1

\* On the current connection a subscription request was sent if and only
\* if an authentication success was received.
SubscribedIffAuthenticated == (ws.subscriptions > 0) <=> ws.auth_ok

\* After stop() no connection is opened.
NoConnectionAfterStop == ws.stopped => ws'.conns = ws.conns

\* C30: while the client runs, a disconnect is followed by a new
\* connection with a new authentication request; on every connection the
\* subscription request is sent upon the authentication success and never
\* before it; after stop() no new connection is opened.
C30_ReconnectAndResubscribe ==
    /\ \A n \in 1..MaxConns :
          Disconnected(n) ~> (Reconnected(n) \/ ~ws.running)
    /\ []SubscribedIffAuthenticated
    /\ [][NoConnectionAfterStop]_vars

(***************************************************************************)
(* Properties of the message loop.                                         *)
(***************************************************************************)
\* Event a was delivered before event b.
EventBefore(a, b) == a[1] < b[1] \/ (a[1] = b[1] /\ a[2] < b[2])

EventData(ev) == consumer.arrived[ev[1]][ev[2]]

\* C31: the stream events are handled one at a time in arrival order: at
\* most one handler is running, and the Fills of the ledger are the rows of
\* the written events in the order the exchange delivered them.
C31_ArrivalOrder ==
    /\ Cardinality(consumer.in_handler) <= 1
    /\ \A i, j \in 1..Len(consumer.written) :
          i < j => EventBefore(consumer.written[i], consumer.written[j])
    /\ Len(fills) = Len(consumer.written)
    /\ \A k \in 1..Len(fills) :
          fills[k] = FillRow(EventData(consumer.written[k]))

\* A handler is running while a later message waits in the socket, after
\* two Fills of the same bot and symbol from different messages were
\* written and an event was dropped.
C31_Witness ==
    /\ consumer.in_handler /= {}
    /\ consumer.taken < Len(consumer.arrived)
    /\ Len(consumer.written) < Cardinality(
          {ev \in (1..MaxMessages) \X (1..2) :
              /\ ev[1] <= consumer.taken
              /\ ev[2] <= Len(consumer.arrived[ev[1]])
              /\ ev \notin consumer.in_handler
              /\ EventBefore(ev, <<consumer.taken, consumer.idx>>)})
    /\ \E i, j \in 1..Len(fills) :
          /\ i < j
          /\ consumer.written[i][1] < consumer.written[j][1]
          /\ fills[i].bot_id = fills[j].bot_id
          /\ fills[i].symbol = fills[j].symbol

(***************************************************************************)
(* The lot invariant.                                                      *)
(***************************************************************************)
LotWellFormed(lot) ==
    /\ 0 <= lot.remaining_qty
    /\ lot.remaining_qty <= lot.original_qty
    /\ lot.status = "closed" <=> lot.remaining_qty = 0

\* The lots of the slices a close returned.
SliceLots(out) == {out[i].entry_id : i \in 1..Len(out)}

\* C32: every lot has 0 <= remaining_qty <= original_qty and is closed
\* exactly when remaining_qty = 0; no step removes a lot or increases its
\* remaining quantity; a closed lot is changed by no later step and is
\* among the slices of no later close.
C32_LotInvariant ==
    [][/\ \A k \in DOMAIN position_entries' :
             LotWellFormed(position_entries'[k])
       /\ \A k \in DOMAIN position_entries :
             /\ k \in DOMAIN position_entries'
             /\ position_entries'[k].remaining_qty
                    <= position_entries[k].remaining_qty
             /\ position_entries[k].status = "closed" =>
                    /\ position_entries'[k] = position_entries[k]
                    /\ CloseStep => k \notin SliceLots(last_close'.out)
         ]_vars

\* After a reconciliation that forced a lot closed, a close went through
\* the open lots of a symbol that has a closed lot and left one lot
\* partially closed.
C32_Witness ==
    /\ last_reconcile.done
    /\ \E s \in DOMAIN last_reconcile.branch :
          last_reconcile.branch[s] = "EXCHANGE_CLOSED_UNRECOVERABLE"
    /\ last_close.n >= 1
    /\ last_close.out /= <<>>
    /\ \E k \in DOMAIN position_entries :
          /\ position_entries[k].status = "closed"
          /\ position_entries[k].symbol = last_close.symbol
          /\ k \notin SliceLots(last_close.out)
    /\ \E k \in DOMAIN position_entries :
          position_entries[k].status = "partially_closed"

(***************************************************************************)
(* The frame of a position event.                                          *)
(***************************************************************************)
\* The rows of trading.positions and the cache keys of the active bots for
\* a symbol.
ActiveRows(symbol) == {<<ActiveBots[k], symbol>> : k \in 1..Len(ActiveBots)}

ActiveKeys(symbol) ==
    {ListenerRedisKey(ActiveBots[k], symbol) : k \in 1..Len(ActiveBots)}

\* The step handling one position event with the given outcome.
PositionStep(data, outcome) ==
    stream' = Append(stream, StreamEntry("position", data, outcome, TRUE))

\* C33: a position event for a symbol handled without a failure leaves, for
\* every active bot, the positions row and the cache entry of that bot and
\* symbol holding the event's values; whatever the outcome, no other row and
\* no other cache entry changes or appears, in particular none of a
\* registered bot that is not active.
C33_EveryActiveBotOverwritten ==
    [][ \A data \in PositionEvents, outcome \in PositionOutcomes :
            PositionStep(data, outcome)
            => /\ outcome = 0
                  => \A k \in 1..Len(ActiveBots) :
                         LET bot == ActiveBots[k]
                             row == <<bot, data.symbol>>
                             key == ListenerRedisKey(bot, data.symbol)
                         IN  /\ row \in DOMAIN positions'
                             /\ positions'[row].bot_id = bot
                             /\ positions'[row].size = data.size
                             /\ positions'[row].side = data.side
                             /\ key \in DOMAIN redis'
                             /\ redis'[key].value.size = data.size
                             /\ redis'[key].value.side = data.side
               /\ \A row \in DOMAIN positions' \ ActiveRows(data.symbol) :
                      row \in DOMAIN positions /\ positions'[row] = positions[row]
               /\ \A key \in DOMAIN redis' \ ActiveKeys(data.symbol) :
                      key \in DOMAIN redis /\ redis'[key] = redis[key]
               /\ DOMAIN positions \subseteq DOMAIN positions'
               /\ DOMAIN redis \subseteq DOMAIN redis'
               /\ \A k \in 1..Len(RegisteredBots), symbol \in Symbols :
                      RegisteredBots[k] \notin {ActiveBots[j] : j \in 1..Len(ActiveBots)}
                      => /\ <<RegisteredBots[k], symbol>> \notin DOMAIN positions'
                         /\ ListenerRedisKey(RegisteredBots[k], symbol)
                                \notin DOMAIN redis'
      ]_vars

\* Both active bots hold the second event's values for BTCUSDT, which
\* replaced those of an earlier event, and their ETHUSDT rows are kept.
C33_Witness ==
    /\ Len(stream) >= 3
    /\ \A k \in 1..Len(ActiveBots) :
          /\ <<ActiveBots[k], "BTCUSDT">> \in DOMAIN positions
          /\ positions[<<ActiveBots[k], "BTCUSDT">>].size = 0
          /\ <<ActiveBots[k], "ETHUSDT">> \in DOMAIN positions
          /\ redis[ListenerRedisKey(ActiveBots[k], "BTCUSDT")].value.size = 0
    /\ \E i, j \in 1..Len(stream) :
          /\ i < j
          /\ stream[i].topic = "position" /\ stream[j].topic = "position"
          /\ stream[i].outcome = 0 /\ stream[j].outcome = 0
          /\ stream[i].data.symbol = "BTCUSDT" /\ stream[i].data.size = 10
          /\ stream[j].data.symbol = "BTCUSDT" /\ stream[j].data.size = 0

(***************************************************************************)
(* The spacing of the requests of one client.                              *)
(***************************************************************************)
\* C34: any two consecutive requests of the client are released at least
\* RATE_LIMIT_DELAY apart, the limiter's stamp is the release time of the
\* latest request, and no request is released before the time it was asked.
C34_RequestsSpaced ==
    /\ \A k \in 2..Len(pager.requests) :
          pager.requests[k].at >= pager.requests[k - 1].at + RateLimitDelayMs
    /\ pager.requests /= <<>>
          => /\ pager.last_request_time
                   = pager.requests[Len(pager.requests)].at
             /\ pager.last_request_time <= pager.now

\* Three requests: the second was held back by the limiter to exactly the
\* interval, the third came later than the interval and passed at once.
C34_Witness ==
    /\ Len(pager.requests) = 3
    /\ pager.requests[2].at = pager.requests[1].at + RateLimitDelayMs
    /\ pager.requests[3].at
          = pager.requests[2].at + PageSleepMs + 50
    /\ PageSleepMs + 50 > RateLimitDelayMs

(***************************************************************************)
(* The windows fetched by the sync runs.                                   *)
(***************************************************************************)
\* Two windows share more than an instant.
Overlap(start_a, end_a, start_b, end_b) ==
    start_a < end_b /\ start_b < end_a

\* C35: a call that starts fetching a window for a bot and sync type does
\* not cover time of a window whose SyncStatus record for that bot and sync
\* type is completed.
C35_CompletedNotRefetched ==
    [][ CallBegins
        => \A key \in DOMAIN sync_status :
               /\ key[1] = call'.bot
               /\ key[2] = call'.sync_type
               /\ sync_status[key].status = "completed"
               => ~Overlap(key[3], key[4], call'.start_time, call'.end_time)
      ]_vars

(***************************************************************************)
(* Properties of the bulk insert.                                          *)
(***************************************************************************)
\* The list the latest sync run handed to the bulk insert.
HandedTrades(run) ==
    IF run.kind = "closed_pnl"
    THEN ClosedPnlTrades(bot_id, run.start_time, run.end_time).trades
    ELSE ExecutionTrades(bot_id, run.start_time, run.end_time).trades

\* C36: a bulk insert returns counts that add up to the number of trades it
\* was handed, its inserted count is the number of rows it created, every
\* trade whose insert did not raise has its row afterwards, also behind a
\* trade whose insert raised, and every insert that raised is counted as
\* skipped.
C36_BulkInsertCounts ==
    [][ (SyncStep /\ last_sync'.handed > 0)
        => LET run == last_sync'
               trades == HandedTrades(run)
           IN  /\ run.handed = Len(trades)
               /\ run.inserted + run.skipped = Len(trades)
               /\ run.inserted
                     = Cardinality(DOMAIN completed_trades'
                                       \ DOMAIN completed_trades)
               /\ \A i \in (1..Len(trades)) \ run.failed :
                      trades[i].trade_id \in DOMAIN completed_trades'
               /\ run.skipped >= Cardinality(run.failed)
      ]_vars

\* The first insert of two raised, the second created its row.
C36_Witness ==
    /\ last_sync.handed = 2
    /\ last_sync.failed = {1}
    /\ last_sync.inserted = 1
    /\ last_sync.skipped = 1
    /\ HandedTrades(last_sync)[2].trade_id \in DOMAIN completed_trades
    /\ HandedTrades(last_sync)[1].trade_id \notin DOMAIN completed_trades

(***************************************************************************)
(* Provenance under the sync upsert.                                       *)
(***************************************************************************)
\* C37: whatever a step does, a row of trading.completed_trades whose source
\* is 'websocket' is still there with source 'websocket'; and a sync run
\* counts as inserted exactly the trade keys, among those whose insert did
\* not raise, that had no row before.
C37_ProvenanceMonotone ==
    [][ /\ \A k \in DOMAIN completed_trades :
              completed_trades[k].source = "websocket"
              => /\ k \in DOMAIN completed_trades'
                 /\ completed_trades'[k].source = "websocket"
        /\ (SyncStep /\ last_sync'.handed > 0)
           => LET run == last_sync'
                  trades == HandedTrades(run)
                  tried == {trades[i].trade_id :
                                i \in (1..Len(trades)) \ run.failed}
              IN  run.inserted
                     = Cardinality(tried \ DOMAIN completed_trades)
      ]_vars

\* A sync run met a row with source 'websocket' under the key of one of its
\* trades: it updated synced_at, left the source and counted the trade as
\* skipped, while it inserted another trade with source 'bybit_api'.
C37_Witness ==
    /\ last_sync.handed = 2
    /\ last_sync.failed = {}
    /\ last_sync.inserted = 1
    /\ last_sync.skipped = 1
    /\ \E k \in DOMAIN completed_trades :
          /\ completed_trades[k].source = "websocket"
          /\ completed_trades[k].synced_at = last_sync.n
          /\ \E i \in 1..2 : HandedTrades(last_sync)[i].trade_id = k
    /\ \E k \in DOMAIN completed_trades :
          /\ completed_trades[k].source = "bybit_api"
          /\ completed_trades[k].synced_at = last_sync.n

(***************************************************************************)
(* The heartbeat tasks of the stream client.                               *)
(***************************************************************************)
\* C38: at most one heartbeat task is alive, and none is alive while the
\* running client has no open connection.
C38_OneHeartbeat ==
    /\ ws.heartbeats <= 1
    /\ (ws.running /\ ~ws.open) => ws.heartbeats = 0

(***************************************************************************)
(* Attribution of the trades of the execution sync.                        *)
(***************************************************************************)
\* The executions of the window with the given order id.
WindowLegs(order_id) ==
    {i \in 1..Len(match_in) : match_in[i].orderId = order_id}

\* The tag, as text "a:b:c", starts with the bot's id and a colon.
TaggedFor(exec, bot) ==
    Len(exec.orderLinkId) >= 2 /\ exec.orderLinkId[1] = bot

\* C39: every CompletedTrade written by the execution sync of a bot has that
\* bot's id, and its entry leg and its exit leg are executions of the
\* window whose tag starts with the bot's id and a colon.
C39_TradesOfTheBotOnly ==
    \A k \in DOMAIN completed_trades :
        LET row == completed_trades[k]
        IN  /\ row.bot_id = call.bot
            /\ WindowLegs(row.entry_order_id) /= {}
            /\ WindowLegs(row.exit_order_id) /= {}
            /\ \A i \in WindowLegs(row.entry_order_id)
                        \cup WindowLegs(row.exit_order_id) :
                   TaggedFor(match_in[i], call.bot)

\* A trade was written for the bot from a window that also held a buy of
\* another bot before the bot's own buy, an untagged execution and a sell
\* of the bot.
C39_Witness ==
    /\ match_out.done
    /\ call.bot = bot_id
    /\ DOMAIN completed_trades /= {}
    /\ Len(match_in) = 4
    /\ match_in[1].side = "Buy" /\ match_in[1].orderLinkId[1] = "lxalgo_001"
    /\ match_in[2].side = "Buy" /\ TaggedFor(match_in[2], bot_id)
    /\ match_in[3].orderLinkId = <<"">>
    /\ match_in[4].side = "Sell" /\ TaggedFor(match_in[4], bot_id)

(***************************************************************************)
(* The exit commission of a close over its slices.                         *)
(***************************************************************************)
\* x <= y for rationals with positive denominators.
RLeq(x, y) == x[1] * y[2] <= y[1] * x[2]

\* The exit commission charged to a slice: what its net P&L lies below its
\* gross P&L, less the share of the lot's entry commission.
ExitShare(pe, slice) ==
    LET lot == pe[slice.entry_id]
    IN  RSub(RSub(RInt(slice.gross_pnl), slice.net_pnl),
             EntryCommPortion(lot.entry_commission, slice.quantity,
                              lot.original_qty))

ExitShares(pe, out) == [i \in 1..Len(out) |-> ExitShare(pe, out[i])]

====
